---- MODULE Spec2Model ----
(***************************************************************************)
(* Report-status polling of the dashboard (src/streamlit_app.py).          *)
(*                                                                         *)
(* A report-generation request inserts a Job Record (a row of the reports  *)
(* table) with status pending, triggers a flow run on the orchestration    *)
(* API and, when the trigger succeeds, starts a detached poller thread     *)
(* (poll_flow_status) that copies the mapped external state of the flow    *)
(* run into the row until a final state is seen or max_attempts checks     *)
(* were made.                                                              *)
(*                                                                         *)
(* Two specifications are defined over the same variables and actions:     *)
(*   Spec      the dashboard: up to MaxReports generation requests, their  *)
(*             pollers and administrative deletion, in any interleaving;   *)
(*   SpecPoll  one poll_flow_status call, started on a freshly scheduled   *)
(*             record, with every status request, store write and sleep    *)
(*             it performs recorded (hist), for every sequence of API      *)
(*             answers and store outcomes.                                 *)
(***************************************************************************)
EXTENDS Integers, Sequences, FiniteSets, Bags, TLC

\* ------------------------------------------------------------------ bounds
\* number of report-generation requests (rows the reports SERIAL hands out)
MaxReports == 2
\* poll_flow_status's max_attempts parameter (600 in the source), bounded
max_attempts == 4

ReportIds == 1..MaxReports

\* rows the users SERIAL hands out (the admin of init_db is row 1)
MaxUsers == 2
UserIds == 1..MaxUsers

\* generation requests made while two users work on the reports page
MaxAuditReports == 1

\* browser sessions, each with its own st.session_state
MaxSessions == 2
Sessions == 1..MaxSessions

\* the clock advances in steps of TickSeconds, MaxTicks times at most
TickSeconds == 150
MaxTicks == 3

\* flow runs started one after the other
MaxRuns == 2

\* rows of audit_logs up to which the actions that can be repeated without
\* end (login, logout, download, a bare log_audit call) are taken
MaxAuditRows == 3

\* charts of the report (ten in charts_mapping), and the longest
\* adhoc_filters list a chart starts with
MaxCharts == 2
ChartIds == 1..MaxCharts
MaxFilters == 2

\* ------------------------------------------------------- external vocabulary
\* state.type values the orchestration status API can answer with: the seven
\* the lookup table knows, one it does not know, and a missing one (None)
ExtStates ==
    {"SCHEDULED", "PENDING", "RUNNING", "COMPLETED", "FAILED", "CANCELLED",
     "CRASHED", "PAUSED", "None"}

\* NULL of the flow_run_id column
NULL == 0

\* final_states with one state forgotten
final_states_short == {"COMPLETED", "FAILED", "CRASHED"}

\* final_states of poll_flow_status
final_states == {"COMPLETED", "FAILED", "CANCELLED", "CRASHED"}

\* status_mapping with CRASHED given a status of its own
status_mapping_crashed ==
    [SCHEDULED |-> "scheduled", PENDING |-> "pending", RUNNING |-> "running",
     COMPLETED |-> "completed", FAILED |-> "failed", CANCELLED |-> "cancelled",
     CRASHED |-> "crashed"]

\* status_mapping of poll_flow_status (a dict literal)
status_mapping ==
    [SCHEDULED |-> "scheduled", PENDING |-> "pending", RUNNING |-> "running",
     COMPLETED |-> "completed", FAILED |-> "failed", CANCELLED |-> "cancelled",
     CRASHED |-> "failed"]

\* status_mapping.get(current_status, 'pending')
db_status(current_status) ==
    IF current_status \in DOMAIN status_mapping
        THEN status_mapping[current_status]
        ELSE "pending"

\* ------------------------------------------------------------------- state
VARIABLES
    reports,    \* reports table: id -> [status, flow_run_id, company,
                \* file_path], for existing rows
    next_id,    \* next value of the reports id SERIAL
    flow_runs,  \* ids of the flow runs created at the orchestration API
    handler,    \* per request (keyed by the row it inserted): position of the
                \* "Gerar Relatorio" handler
    poller,     \* per row id: the poller thread started for it
    traced,     \* ids whose poller is observed: its events are kept in hist
    hist,       \* per row id: the status requests, store writes and sleeps
                \* its poller has performed so far
    audit_logs, \* audit_logs table: the bag of its rows (id and created_at,
                \* which no statement reads back, are left out)
    users,      \* users table: id -> [role]
    company_rows, \* company table: the names, in id order
    actor,      \* per request: st.session_state.user['id'] of its session
    denied,     \* the delete attempt last answered "Apenas administradores"
    LOGIN_ATTEMPTS, \* per browser session: st.session_state['LOGIN_ATTEMPTS']
    now,        \* time.time(), in seconds
    auth_log,   \* the authenticate calls made so far, with their outcome
    flow,       \* the flow run in progress, or the way the last one ended
    s3,         \* object store: [bucket, key] -> content
    charts,     \* BI tool: chart id -> its adhoc_filters
    files,      \* local files and the persistent secret of the worker
    stage_log   \* the stages executed so far, with what they read and wrote

dash_vars == <<reports, next_id, flow_runs, handler, poller, traced, hist>>
audit_vars == <<audit_logs, users, company_rows, actor, denied>>
login_vars == <<LOGIN_ATTEMPTS, now, auth_log>>
pipe_vars == <<flow, s3, charts, files, stage_log>>

vars == <<dash_vars, audit_vars, login_vars, pipe_vars>>

NoPoller ==
    [pc |-> "none", attempts |-> 0, checks |-> 0, flow_run_id |-> NULL,
     threads |-> 0]

\* ------------------------------------------------------------ store writes
\* update_report_status whose UPDATE lost its WHERE clause
update_report_status_all_rows(rs, report_id, status, applied) ==
    IF applied
        THEN [i \in DOMAIN rs |-> [rs[i] EXCEPT !.status = status]]
        ELSE rs

\* update_report_status taking the branch that also SETs file_path
update_report_status_file_path(rs, report_id, status, applied) ==
    IF applied /\ report_id \in DOMAIN rs
        THEN [rs EXCEPT ![report_id].status = status,
                        ![report_id].file_path = <<status, ".pdf">>]
        ELSE rs

\* update_report_status(report_id, status) with file_path=None: the UPDATE
\* touches the row with that id if there is one; applied = FALSE is the
\* except branch (store unavailable), which returns False and changes nothing
update_report_status(rs, report_id, status, applied) ==
    IF applied /\ report_id \in DOMAIN rs
        THEN [rs EXCEPT ![report_id].status = status]
        ELSE rs

\* ------------------------------------------------------------------ poller
\* the loop test off by one
LoopGuard_inclusive(attempts) == attempts <= max_attempts

\* while attempts < max_attempts
LoopGuard(attempts) == attempts < max_attempts

\* what check_flow_run_status hands back: success with state.type, or
\* success False (RequestException). Any other exception raised inside the
\* try of the loop is caught by the loop's except branch, which sleeps and
\* counts the attempt exactly as the success False path does, so it is the
\* same outcome here.
CheckResults ==
    [success : {TRUE}, status : ExtStates] \cup
    [success : {FALSE}, status : {"n/a"}]

\* an iteration that skips the write for states the table does not know
IterationWrites_known_only(result) ==
    IF result.success /\ result.status \in DOMAIN status_mapping
        THEN <<status_mapping[result.status]>>
        ELSE <<>>

\* the writes one iteration issues: the mapped status when the check
\* succeeded (on every poll, changed or not), nothing otherwise
IterationWrites(result) ==
    IF result.success THEN <<db_status(result.status)>> ELSE <<>>

\* if current_status in final_states: break
IterationBreaks(result) ==
    result.success /\ result.status \in final_states

\* the events of a traced poller, in the order the thread performs them
CheckEvent(result) ==
    [kind |-> "check", success |-> result.success, status |-> result.status,
     applied |-> TRUE]
WriteEvent(status, applied) ==
    [kind |-> "write", success |-> TRUE, status |-> status,
     applied |-> applied]
SleepEvent ==
    [kind |-> "sleep", success |-> TRUE, status |-> "n/a", applied |-> TRUE]

Log(id, events) ==
    IF id \in traced THEN [hist EXCEPT ![id] = @ \o events] ELSE hist

\* the timeout write made unconditional
AfterLoop_unconditional(attempts) == "timeout"

\* where the thread stands once the loop was left (by break or because the
\* loop condition turned false): if attempts >= max_attempts the timeout
\* write is still to come, otherwise the function returns
AfterLoop(attempts) ==
    IF attempts >= max_attempts THEN "timeout" ELSE "done"

\* one turn of the while loop: the status request, the write of the mapped
\* status, then either break, or sleep, attempts += 1 and the loop test
PollIteration(id, result, applied) ==
    LET p == poller[id]
        w == IterationWrites(result)
        brk == IterationBreaks(result)
        att == IF brk THEN p.attempts ELSE p.attempts + 1
    IN  /\ p.pc = "check"
        /\ (w = <<>>) => applied
        /\ reports' = IF w = <<>> THEN reports
                      ELSE update_report_status(reports, id, w[1], applied)
        /\ poller' = [poller EXCEPT ![id] =
                        [p EXCEPT !.checks = p.checks + 1,
                                  !.attempts = att,
                                  !.pc = IF ~brk /\ LoopGuard(att)
                                            THEN "check"
                                            ELSE AfterLoop(att)]]
        /\ hist' = Log(id, <<CheckEvent(result)>>
                            \o [i \in DOMAIN w |-> WriteEvent(w[i], applied)]
                            \o (IF brk THEN <<>> ELSE <<SleepEvent>>))
        /\ UNCHANGED <<next_id, flow_runs, handler, traced>>
        /\ UNCHANGED <<audit_vars, login_vars, pipe_vars>>

\* update_report_status(report_id, 'timeout') after the loop
PollTimeout(id, applied) ==
    LET p == poller[id]
    IN  /\ p.pc = "timeout"
        /\ reports' = update_report_status(reports, id, "timeout", applied)
        /\ poller' = [poller EXCEPT ![id].pc = "done"]
        /\ hist' = Log(id, <<WriteEvent("timeout", applied)>>)
        /\ UNCHANGED <<next_id, flow_runs, handler, traced>>
        /\ UNCHANGED <<audit_vars, login_vars, pipe_vars>>

PollerStep(id) ==
    \/ \E result \in CheckResults, applied \in BOOLEAN :
          PollIteration(id, result, applied)
    \/ \E applied \in BOOLEAN : PollTimeout(id, applied)

\* --------------------------------------------------------------- audit log
\* Python values handed to log_audit as details: None, or a dict given by
\* its items <<key, value>>; a key or value is [t, v] with t its Python type
\* and v its text
PyNone == [t |-> "None", items |-> {}]
PyDict(items) == [t |-> "dict", items |-> items]
PyStr(v) == [t |-> "str", v |-> v]
PyInt(v) == [t |-> "int", v |-> v]

\* the value of a NULL column, as psycopg2 hands it back
SqlNull == [t |-> "None", items |-> {}]

\* json.dumps(details): a JSON object; every key becomes a JSON string (an
\* int key is written as its decimal text), values keep their JSON type
json_dumps(details) ==
    [t |-> "json",
     items |-> {<<PyStr(it[1].v), it[2]>> : it \in details.items}]

\* what psycopg2 returns for a JSONB column holding that object: a dict
json_loads(text) == PyDict(text.items)

\* "if details" of log_audit: None and the empty dict are both false
Truthy(details) == details.t = "dict" /\ details.items # {}

\* json.dumps(details) if details else None
details_column(details) ==
    IF Truthy(details) THEN json_dumps(details) ELSE SqlNull

\* a row of audit_logs as a later SELECT returns it
read_details(column) ==
    IF column.t = "json" THEN json_loads(column) ELSE SqlNull

AuditRow(user_id, action, target_id, details) ==
    [user_id |-> user_id, action |-> action, target_id |-> target_id,
     details |-> details_column(details), ip_address |-> NULL]

\* log_audit that replaces the table's content by the new row
log_audit_overwrite(logs, user_id, action, target_id, details, applied) ==
    IF applied /\ user_id \in DOMAIN users
        THEN SetToBag({AuditRow(user_id, action, target_id, details)})
        ELSE logs

\* log_audit(user_id, action, target_id, details): one INSERT; applied =
\* FALSE is the except branch (store unavailable, or user_id violating the
\* foreign key), which prints and writes nothing
log_audit(logs, user_id, action, target_id, details, applied) ==
    IF applied /\ user_id \in DOMAIN users
        THEN logs (+) SetToBag({AuditRow(user_id, action, target_id, details)})
        ELSE logs

\* ------------------------------------------------------- generation handler
\* company names a report is requested for, and their characters
ReportCompanies == {"LM", "A..B"}
Chars ==
    ("LM" :> <<"L", "M">>) @@ ("A..B" :> <<"A", ".", ".", "B">>)

\* str.lower() on the characters of the model
lower(str) ==
    [i \in DOMAIN str |->
        CASE str[i] = "L" -> "l"
          [] str[i] = "M" -> "m"
          [] str[i] = "A" -> "a"
          [] str[i] = "B" -> "b"
          [] OTHER -> str[i]]

\* str.strip()
RECURSIVE strip(_)
strip(str) ==
    IF str = <<>> THEN str
    ELSE IF Head(str) = " " THEN strip(Tail(str))
    ELSE IF str[Len(str)] = " " THEN strip(SubSeq(str, 1, Len(str) - 1))
    ELSE str

\* sanitize_input(value, max_length=255): value.strip()[:max_length]
sanitize_input(value) ==
    IF value = <<>> THEN <<>>
    ELSE LET v == strip(value)
         IN  SubSeq(v, 1, IF Len(v) < 255 THEN Len(v) ELSE 255)

\* str.replace(old, new): the occurrences from the left, not overlapping
RECURSIVE replace(_, _, _)
replace(str, old, new) ==
    IF Len(str) < Len(old) THEN str
    ELSE IF SubSeq(str, 1, Len(old)) = old
        THEN new \o replace(SubSeq(str, Len(old) + 1, Len(str)), old, new)
    ELSE <<Head(str)>> \o replace(Tail(str), old, new)

\* datetime.now().strftime("%Y%m%d_%H%M%S") at second t of the clock: one
\* text per second
strftime(t) == ToString(t)

\* f'{sanitize_input(company.lower())}_report_{now:%Y%m%d_%H%M%S}.pdf', the
\* value stored in reports.file_path and passed to the flow as report_name
report_name(company, t) ==
    sanitize_input(lower(Chars[company])) \o <<"_report_", strftime(t), ".pdf">>

\* the row INSERTed for a request (one date range stands for all)
NewRow(company_name, t) ==
    [status |-> "pending", flow_run_id |-> NULL, company |-> company_name,
     file_path |-> report_name(company_name, t)]

\* reports_page, "Gerar Relatorio" for the selected company at the second
\* the clock shows: INSERT ... status 'pending', file_path report_name,
\* RETURNING id (a request with end_date < start_date returns before the
\* INSERT and changes nothing)
GenRequest(u, company_name) ==
    /\ next_id <= MaxReports
    /\ u \in DOMAIN users
    /\ reports' = [i \in DOMAIN reports \cup {next_id} |->
                     IF i = next_id THEN NewRow(company_name, now)
                     ELSE reports[i]]
    /\ next_id' = next_id + 1
    /\ handler' = [handler EXCEPT ![next_id] = "triggering"]
    /\ actor' = [actor EXCEPT ![next_id] = u]
    /\ UNCHANGED <<flow_runs, poller, traced, hist>>
    /\ UNCHANGED <<audit_logs, users, company_rows, denied>>
    /\ UNCHANGED <<login_vars, pipe_vars>>

\* the request for the first company
GenInsert(u) == GenRequest(u, "LM")

\* start_polling_thread(report_id, flow_run_id): one more thread for the
\* row, running poll_flow_status from attempts = 0
start_polling_thread(report_id, flow_run_id) ==
    [poller EXCEPT ![report_id] =
        [pc |-> IF LoopGuard(0) THEN "check" ELSE AfterLoop(0),
         attempts |-> 0, checks |-> 0, flow_run_id |-> flow_run_id,
         threads |-> poller[report_id].threads + 1]]

\* result.get('id') of the trigger response: the id of the flow run created
\* for this request, a fresh one per request
FlowRunId(id) == id

\* the details of a generate_report entry: {**flow_params, 'flow_run_id'},
\* of which the flow run id is kept
GenerateDetails(id) ==
    PyDict({<<PyStr("flow_run_id"), PyStr(ToString(FlowRunId(id)))>>})

\* trigger_prefect_flow answered success: UPDATE flow_run_id and status
\* 'scheduled', log_audit 'generate_report', then start the poller
GenTriggerOk(id, applied) ==
    /\ handler[id] = "triggering"
    /\ flow_runs' = flow_runs \cup {FlowRunId(id)}
    /\ reports' = IF id \in DOMAIN reports
                     THEN [reports EXCEPT ![id].status = "scheduled",
                                          ![id].flow_run_id = FlowRunId(id)]
                     ELSE reports
    /\ poller' = start_polling_thread(id, FlowRunId(id))
    /\ handler' = [handler EXCEPT ![id] = "triggered"]
    /\ audit_logs' = log_audit(audit_logs, actor[id], "generate_report", id,
                               GenerateDetails(id), applied)
    /\ UNCHANGED <<next_id, traced, hist>>
    /\ UNCHANGED <<users, company_rows, actor, denied>>
    /\ UNCHANGED <<login_vars, pipe_vars>>

\* a failed trigger that leaves the row as it was inserted
GenTriggerFail_no_update(id) ==
    /\ handler[id] = "triggering"
    /\ handler' = [handler EXCEPT ![id] = "trigger_failed"]
    /\ UNCHANGED <<reports, next_id, flow_runs, poller, traced, hist>>
    /\ UNCHANGED <<audit_vars, login_vars, pipe_vars>>

\* trigger_prefect_flow answered success False (RequestException):
\* UPDATE status 'failed'; no poller and no log_audit call
GenTriggerFail(id) ==
    /\ handler[id] = "triggering"
    /\ reports' = IF id \in DOMAIN reports
                     THEN [reports EXCEPT ![id].status = "failed"]
                     ELSE reports
    /\ handler' = [handler EXCEPT ![id] = "trigger_failed"]
    /\ UNCHANGED <<next_id, flow_runs, poller, traced, hist>>
    /\ UNCHANGED <<audit_vars, login_vars, pipe_vars>>

\* the statements of the success branch, in the order of the code: the
\* UPDATE of flow_run_id and status 'scheduled' with its commit, log_audit,
\* start_polling_thread
TriggerSteps_start_first == <<"start_polling_thread", "update", "log_audit">>
TriggerSteps == <<"update", "log_audit", "start_polling_thread">>

\* the position of the handler after the statement at position k
AfterStep(k) ==
    IF k < Len(TriggerSteps) THEN TriggerSteps[k + 1] ELSE "triggered"

StepAt(id, step) ==
    \E k \in DOMAIN TriggerSteps :
        TriggerSteps[k] = step /\ handler[id] = step

StepDone(id, step) ==
    LET k == CHOOSE i \in DOMAIN TriggerSteps : TriggerSteps[i] = step
    IN  [handler EXCEPT ![id] = AfterStep(k)]

\* trigger_prefect_flow answered success: the flow run exists and the
\* handler enters the success branch
GenTriggerAnswer(id) ==
    /\ handler[id] = "triggering"
    /\ flow_runs' = flow_runs \cup {FlowRunId(id)}
    /\ handler' = [handler EXCEPT ![id] = TriggerSteps[1]]
    /\ UNCHANGED <<reports, next_id, poller, traced, hist>>
    /\ UNCHANGED <<audit_vars, login_vars, pipe_vars>>

\* UPDATE reports SET flow_run_id, status 'scheduled' WHERE id; commit
GenUpdateScheduled(id) ==
    /\ StepAt(id, "update")
    /\ reports' = IF id \in DOMAIN reports
                     THEN [reports EXCEPT ![id].status = "scheduled",
                                          ![id].flow_run_id = FlowRunId(id)]
                     ELSE reports
    /\ handler' = StepDone(id, "update")
    /\ UNCHANGED <<next_id, flow_runs, poller, traced, hist>>
    /\ UNCHANGED <<audit_vars, login_vars, pipe_vars>>

\* log_audit(user, 'generate_report', report_id, {..., 'flow_run_id'})
GenLogAudit(id, applied) ==
    /\ StepAt(id, "log_audit")
    /\ audit_logs' = log_audit(audit_logs, actor[id], "generate_report", id,
                               GenerateDetails(id), applied)
    /\ handler' = StepDone(id, "log_audit")
    /\ UNCHANGED <<reports, next_id, flow_runs, poller, traced, hist>>
    /\ UNCHANGED <<users, company_rows, actor, denied>>
    /\ UNCHANGED <<login_vars, pipe_vars>>

\* a handler that runs its last statement again
GenStartPoller_again(id) ==
    /\ StepAt(id, "start_polling_thread") \/ handler[id] = "triggered"
    /\ poller[id].threads < 2
    /\ poller' = start_polling_thread(id, FlowRunId(id))
    /\ handler' = StepDone(id, "start_polling_thread")
    /\ UNCHANGED <<reports, next_id, flow_runs, traced, hist>>
    /\ UNCHANGED <<audit_vars, login_vars, pipe_vars>>

\* start_polling_thread(report_id, result['flow_run_id']), the last
\* statement of the branch and the only call of start_polling_thread
GenStartPoller(id) ==
    /\ StepAt(id, "start_polling_thread")
    /\ poller' = start_polling_thread(id, FlowRunId(id))
    /\ handler' = StepDone(id, "start_polling_thread")
    /\ UNCHANGED <<reports, next_id, flow_runs, traced, hist>>
    /\ UNCHANGED <<audit_vars, login_vars, pipe_vars>>

\* "Excluir" with the role test left out
DeleteReport_any_role(id, u, applied) ==
    /\ id \in DOMAIN reports
    /\ u \in DOMAIN users
    /\ reports' = [i \in DOMAIN reports \ {id} |-> reports[i]]
    /\ audit_logs' = log_audit(audit_logs, u, "delete_report", id, PyNone,
                               applied)
    /\ UNCHANGED <<next_id, flow_runs, handler, poller, traced, hist>>
    /\ UNCHANGED <<users, company_rows, actor, denied>>
    /\ UNCHANGED <<login_vars, pipe_vars>>

\* reports_page, "Excluir" pressed by an admin on a listed row:
\* DELETE FROM reports WHERE id, then log_audit 'delete_report'
DeleteReport(id, u, applied) ==
    /\ id \in DOMAIN reports
    /\ u \in DOMAIN users
    /\ users[u].role = "admin"
    /\ reports' = [i \in DOMAIN reports \ {id} |-> reports[i]]
    /\ audit_logs' = log_audit(audit_logs, u, "delete_report", id, PyNone,
                               applied)
    /\ UNCHANGED <<next_id, flow_runs, handler, poller, traced, hist>>
    /\ UNCHANGED <<users, company_rows, actor, denied>>
    /\ UNCHANGED <<login_vars, pipe_vars>>

\* "Excluir" pressed by anyone else: st.error("Apenas administradores")
DeleteDenied(id, u) ==
    /\ id \in DOMAIN reports
    /\ u \in DOMAIN users
    /\ users[u].role # "admin"
    /\ denied' = <<u, id>>
    /\ UNCHANGED <<dash_vars, audit_logs, users, company_rows, actor>>
    /\ UNCHANGED <<login_vars, pipe_vars>>

\* ------------------------------------------------------ administration pages
Roles == {"admin", "user", "viewer"}

\* two of the names init_db inserts into company
ExampleCompanies == <<"SOHO LOUNGE", "Metazon/Moss">>

\* names typed into "Nome da Empresa": a new one and an existing one
CompanyNames == {"Nova Empresa", "SOHO LOUNGE"}

Range(seq) == {seq[i] : i \in DOMAIN seq}

\* login_page after authenticate returned the user: log_audit 'login'
Login(u, applied) ==
    /\ u \in DOMAIN users
    /\ BagCardinality(audit_logs) < MaxAuditRows
    /\ audit_logs' = log_audit(audit_logs, u, "login", NULL, PyNone, applied)
    /\ UNCHANGED <<dash_vars, users, company_rows, actor, denied>>
    /\ UNCHANGED <<login_vars, pipe_vars>>

\* main_app, "Sair": log_audit 'logout'
Logout(u, applied) ==
    /\ u \in DOMAIN users
    /\ BagCardinality(audit_logs) < MaxAuditRows
    /\ audit_logs' = log_audit(audit_logs, u, "logout", NULL, PyNone, applied)
    /\ UNCHANGED <<dash_vars, users, company_rows, actor, denied>>
    /\ UNCHANGED <<login_vars, pipe_vars>>

\* companies_page, "Adicionar" by an admin with a name the table does not
\* hold (a duplicate raises IntegrityError and changes nothing): INSERT,
\* then log_audit 'add_company'
AddCompany(u, name, applied) ==
    /\ u \in DOMAIN users
    /\ users[u].role = "admin"
    /\ name \notin Range(company_rows)
    /\ company_rows' = Append(company_rows, name)
    /\ audit_logs' = log_audit(audit_logs, u, "add_company",
                               Len(company_rows) + 1,
                               PyDict({<<PyStr("name"), PyStr(name)>>}),
                               applied)
    /\ UNCHANGED <<dash_vars, users, actor, denied, login_vars, pipe_vars>>

\* users_page, "Adicionar Usuario" by an admin with valid fields and a new
\* email: INSERT, then log_audit 'add_user'
AddUser(u, role, applied) ==
    LET user_id == Cardinality(DOMAIN users) + 1
    IN  /\ u \in DOMAIN users
        /\ users[u].role = "admin"
        /\ user_id \in UserIds
        /\ users' = [i \in DOMAIN users \cup {user_id} |->
                        IF i = user_id THEN [role |-> role] ELSE users[i]]
        /\ audit_logs' = log_audit(audit_logs, u, "add_user", user_id,
                                   PyDict({<<PyStr("role"), PyStr(role)>>}),
                                   applied)
        /\ UNCHANGED <<dash_vars, company_rows, actor, denied>>
        /\ UNCHANGED <<login_vars, pipe_vars>>

\* reports_page, "Baixar" on a completed row whose file is in the store:
\* log_audit 'download_report' (a row that is not completed, or a missing
\* file, shows a message and writes nothing)
DownloadReport(id, u, applied) ==
    /\ id \in DOMAIN reports
    /\ u \in DOMAIN users
    /\ reports[id].status = "completed"
    /\ audit_logs' = log_audit(audit_logs, u, "download_report", id,
                               PyDict({<<PyStr("file_path"),
                                         PyStr(ToString(id))>>}), applied)
    /\ BagCardinality(audit_logs) < MaxAuditRows
    /\ UNCHANGED <<dash_vars, users, company_rows, actor, denied>>
    /\ UNCHANGED <<login_vars, pipe_vars>>

\* ------------------------------------------------------------------- login
MAX_LOGIN_ATTEMPTS == 5
LOCKOUT_DURATION == 300

\* the identifiers typed into the login form: the admin's email and a text
\* that is no email
Emails == {"admin@company.com", "admin"}

\* the same with the email of nobody in the users table
AllEmails == Emails \cup {"user@company.com"}

\* validate_email: the identifiers matching
\* ^[a-zA-Z0-9._%+-]+@[a-zA-Z0-9.-]+\.[a-zA-Z]{2,}$
validate_email(email) == email \in {"admin@company.com", "user@company.com"}

\* the users table as authenticate reads it: email -> the password whose
\* bcrypt hash is stored (verify_password is checkpw against that hash)
Credentials == ("admin@company.com" :> "Admin@123!Change")
Passwords == {"Admin@123!Change", "guess"}

verify_password(password, hashed) == password = hashed

\* check_rate_limit that stamps the entry of a blocked identifier anew
check_rate_limit_extend(la, identifier, t) ==
    IF identifier \notin DOMAIN la
        THEN [allowed |-> TRUE, la |-> la]
    ELSE IF t - la[identifier].timestamp > LOCKOUT_DURATION
        THEN [allowed |-> TRUE,
              la |-> [i \in DOMAIN la \ {identifier} |-> la[i]]]
    ELSE IF la[identifier].count >= MAX_LOGIN_ATTEMPTS
        THEN [allowed |-> FALSE,
              la |-> [la EXCEPT ![identifier].timestamp = t]]
    ELSE [allowed |-> TRUE, la |-> la]

\* check_rate_limit(identifier) at time t on the dict la: the answer and the
\* dict it leaves (an entry older than LOCKOUT_DURATION is deleted)
check_rate_limit(la, identifier, t) ==
    IF identifier \notin DOMAIN la
        THEN [allowed |-> TRUE, la |-> la]
    ELSE IF t - la[identifier].timestamp > LOCKOUT_DURATION
        THEN [allowed |-> TRUE,
              la |-> [i \in DOMAIN la \ {identifier} |-> la[i]]]
    ELSE IF la[identifier].count >= MAX_LOGIN_ATTEMPTS
        THEN [allowed |-> FALSE, la |-> la]
    ELSE [allowed |-> TRUE, la |-> la]

\* record_login_attempt that empties the dict on a success
record_login_attempt_clear_all(la, identifier, success, t) ==
    IF success
        THEN <<>>
    ELSE IF identifier \notin DOMAIN la
        THEN [i \in DOMAIN la \cup {identifier} |->
                IF i = identifier THEN [count |-> 1, timestamp |-> t]
                ELSE la[i]]
    ELSE [la EXCEPT ![identifier] =
            [count |-> @.count + 1, timestamp |-> t]]

\* record_login_attempt(identifier, success) at time t
record_login_attempt(la, identifier, success, t) ==
    IF success
        THEN [i \in DOMAIN la \ {identifier} |-> la[i]]
    ELSE IF identifier \notin DOMAIN la
        THEN [i \in DOMAIN la \cup {identifier} |->
                IF i = identifier THEN [count |-> 1, timestamp |-> t]
                ELSE la[i]]
    ELSE [la EXCEPT ![identifier] =
            [count |-> @.count + 1, timestamp |-> t]]

\* how one authenticate call ends: "user" (the tuple is returned), "None"
\* (credentials refused), "error" (the except branch, which also returns
\* None), "invalid" (no email, None), "rate_limit" (the exception)
auth_outcome(la, email, password, db_ok, t) ==
    IF ~validate_email(email) THEN "invalid"
    ELSE IF ~check_rate_limit(la, email, t).allowed THEN "rate_limit"
    ELSE IF ~db_ok THEN "error"
    ELSE IF email \in DOMAIN Credentials
            /\ verify_password(password, Credentials[email]) THEN "user"
    ELSE "None"

\* the consecutive credential failures of an identifier, over all sessions,
\* each at most LOCKOUT_DURATION after the one before: their number (counted
\* up to MAX_LOGIN_ATTEMPTS) and the time of the last one
NoFailures == [n |-> 0, last |-> 0]
Failures(f, outcome, t) ==
    IF outcome = "None"
        THEN [n |-> IF f.n > 0 /\ t - f.last > LOCKOUT_DURATION THEN 1
                    ELSE IF f.n < MAX_LOGIN_ATTEMPTS THEN f.n + 1 ELSE f.n,
              last |-> t]
    ELSE IF outcome = "user" THEN NoFailures
    ELSE f

NoCall ==
    [session |-> 0, email |-> "", time |-> 0, outcome |-> "none",
     before |-> NoFailures]

\* authenticate(email, password) in browser session s
authenticate(s, email, password, db_ok) ==
    LET la == LOGIN_ATTEMPTS[s]
        outcome == auth_outcome(la, email, password, db_ok, now)
        checked == IF validate_email(email)
                       THEN check_rate_limit(la, email, now).la ELSE la
        after == IF outcome \in {"user", "None"}
                     THEN record_login_attempt(checked, email,
                                               outcome = "user", now)
                     ELSE checked
    IN  /\ LOGIN_ATTEMPTS' = [LOGIN_ATTEMPTS EXCEPT ![s] = after]
        /\ auth_log' =
              [last |-> [session |-> s, email |-> email, time |-> now,
                         outcome |-> outcome,
                         before |-> auth_log.failures[email]],
               failures |-> [auth_log.failures EXCEPT
                               ![email] = Failures(@, outcome, now)]]
        /\ UNCHANGED <<now, dash_vars, audit_vars, pipe_vars>>

\* time passes
Tick ==
    /\ now + TickSeconds <= MaxTicks * TickSeconds
    /\ now' = now + TickSeconds
    /\ UNCHANGED <<LOGIN_ATTEMPTS, auth_log, dash_vars, audit_vars, pipe_vars>>

\* ---------------------------------------------------------------- pipelines
\* os.getenv('MINIO_BUCKET'), in a deployment whose bucket is the one the
\* s3://hawkeye/... URLs of the queries name
MINIO_BUCKET == "hawkeye"
S3_BUCKET == MINIO_BUCKET

\* an object of the store, or a local file of the worker (bucket "local"):
\* the directory as its segments, the file name as a sequence of pieces of
\* text (single characters where the code inspects them)
Object(bucket, dir, name) == [bucket |-> bucket, dir |-> dir, name |-> name]

\* download.suggested_filename of the export
DownloadNames == {<<"checklist.csv">>}

\* the file names of the model that the pattern *.csv matches
IsCsv(name) == name \in {<<"checklist.csv">>, <<"manual.csv">>}

\* whether DuckDB resolves the URL or pattern to the object
Matches(loc, pattern) ==
    /\ loc.bucket = pattern.bucket
    /\ loc.dir = pattern.dir
    /\ IF pattern.name = <<"*.csv">> THEN IsCsv(loc.name)
       ELSE loc.name = pattern.name

\* upload_file(local_file_path, MINIO_BUCKET, f'landing/lm/{object_name}')
IngestOutput(object_name) ==
    Object(MINIO_BUCKET, <<"landing", "lm">>, object_name)

\* FROM 's3://hawkeye/lm/landing/*.csv'
RawInput == Object("hawkeye", <<"lm", "landing">>, <<"*.csv">>)

\* raw that writes its result over the file ingest uploaded
RawOutput_over_landing ==
    Object("hawkeye", <<"landing", "lm">>, <<"checklist.csv">>)

\* TO 's3://hawkeye/lm/raw/checklist.parquet'
RawOutput == Object("hawkeye", <<"lm", "raw">>, <<"checklist.parquet">>)

\* FROM "s3://hawkeye/lm/raw/checklist.parquet"
CleanedInput == Object("hawkeye", <<"lm", "raw">>, <<"checklist.parquet">>)

\* TO 's3://hawkeye/lm/cleaned/checklist.parquet'
CleanedOutput == Object("hawkeye", <<"lm", "cleaned">>, <<"checklist.parquet">>)

\* FROM 's3://hawkeye/lm/cleaned/checklist.parquet' of the comments query
CommentsInput == Object("hawkeye", <<"lm", "cleaned">>, <<"checklist.parquet">>)

\* s3.upload_file('report.pdf', MINIO_BUCKET, f'lm/reports/{report_name}')
UploadOutput(name) == Object(MINIO_BUCKET, <<"lm", "reports">>, name)

\* download_report_from_s3 and check_file_exists_in_s3:
\* f"lm/reports/{file_path.replace('..', '').replace('//', '/')}"
DownloadInput(file_path) ==
    Object(S3_BUCKET, <<"lm", "reports">>,
           replace(replace(file_path, <<".", ".">>, <<>>),
                   <<"/", "/">>, <<"/">>))

\* ./data/img/{name}.png of chart c, report.pdf, the DuckDB secret
ScreenshotFile(c) == Object("local", <<"data", "img">>, <<ToString(c), ".png">>)
ReportFile == Object("local", <<>>, <<"report.pdf">>)
SecretFile == Object("local", <<"duckdb">>, <<"my_secret">>)

\* adhoc filters: the keys of the dict that tell two filters apart
AdhocFilter(subject, operator, comparator, expressionType) ==
    [clause |-> "WHERE", comparator |-> comparator,
     expressionType |-> expressionType, operator |-> operator,
     subject |-> subject]

\* filters a chart may hold before a run
KnownFilters ==
    {AdhocFilter("regiao", "IN", <<"Norte">>, "SIMPLE"),
     AdhocFilter("unidade", "IN", <<"Outra">>, "SIMPLE"),
     AdhocFilter("data_inicial", "TEMPORAL_RANGE", <<"No filter">>, "SIMPLE"),
     AdhocFilter("None", "None", <<>>, "SQL")}

FilterLists == UNION {[1..n -> KnownFilters] : n \in 0..MaxFilters}

\* add_filter that appends without removing the old filters
add_filter_append_only(chart_filter, company) ==
    [chart_filter |-> chart_filter,
     result |-> chart_filter \o
        <<AdhocFilter("data_inicial", "TEMPORAL_RANGE", <<"Last week">>,
                      "SIMPLE"),
          AdhocFilter("unidade", "IN", <<company>>, "SIMPLE")>>]

\* UpdateChart.add_filter(chart_filter, company): the list returned, and the
\* list passed in as the call leaves it (the work is done on a copy)
add_filter(chart_filter, company) ==
    LET copy == chart_filter
        new_filter == SelectSeq(copy,
            LAMBDA x : x.subject \notin {"unidade", "data_inicial"})
    IN  [chart_filter |-> chart_filter,
         result |-> Append(
            Append(new_filter,
                   AdhocFilter("data_inicial", "TEMPORAL_RANGE",
                               <<"Last week">>, "SIMPLE")),
            AdhocFilter("unidade", "IN", <<company>>, "SIMPLE"))]

\* the stages of the two flows, in the order the flow function calls them
IngestStages_raw_first == <<"raw", "ingest", "create_secret", "cleaned">>
IngestStages == <<"ingest", "create_secret", "raw", "cleaned">>
ReportStages ==
    <<"UpdateChart", "ScreenshotChart", "create_secret", "comments_query",
      "summarize", "generate_report_pdf", "upload_file">>
Stages(name) ==
    IF name = "fluxo_principal" THEN IngestStages ELSE ReportStages

\* the stages that loop over the charts
LoopStages == {"UpdateChart", "ScreenshotChart"}

NoFlow ==
    [name |-> "none", run |-> 0, pc |-> "idle", k |-> 0, company |-> "",
     dates |-> "", report_name |-> <<>>, exception |-> "none"]

\* the statement after the one that returned
NextPc(stages, stage) ==
    LET i == CHOOSE j \in DOMAIN stages : stages[j] = stage
    IN  IF i = Len(stages) THEN "returned" ELSE stages[i + 1]

Advance(f) ==
    IF f.pc \in LoopStages /\ f.k < MaxCharts
        THEN [f EXCEPT !.k = f.k + 1]
        ELSE [f EXCEPT !.pc = NextPc(Stages(f.name), f.pc), !.k = 1]

\* a handler that swallows the exception and goes on with the next stage
Propagate_swallow(f) == Advance(f)

\* no try/except in the flow function: the exception of the stage leaves it
Propagate(f) == [f EXCEPT !.pc = "raised", !.exception = f.pc]

Put(store, loc, content) ==
    [l \in DOMAIN store \cup {loc} |-> IF l = loc THEN content ELSE store[l]]

Content(stage) == [by |-> stage, run |-> flow.run]

Effect(store, loc, content) ==
    [store |-> store, loc |-> loc, content |-> content]

NoChart ==
    [id |-> 0, company |-> "", before |-> <<>>, passed |-> <<>>,
     result |-> <<>>]

\* what every stage does to the flow run, and its entry in stage_log
Step(ok, reads, writes, chart) ==
    /\ flow' = IF ok THEN Advance(flow) ELSE Propagate(flow)
    /\ stage_log' = Append(stage_log,
          [flow |-> flow.name, run |-> flow.run, stage |-> flow.pc,
           item |-> IF flow.pc \in LoopStages THEN flow.k ELSE 0,
           ok |-> ok, reads |-> reads,
           writes |-> IF ok THEN writes ELSE <<>>,
           chart |-> IF ok THEN chart ELSE NoChart])

Idle == flow.pc \in {"idle", "returned", "raised"}

\* full_pipeline.fluxo_principal()
StartIngest ==
    /\ Idle
    /\ flow.run < MaxRuns
    /\ flow' = [NoFlow EXCEPT !.name = "fluxo_principal",
                              !.run = flow.run + 1,
                              !.pc = IngestStages[1], !.k = 1]
    /\ UNCHANGED <<s3, charts, files, stage_log>>
    /\ UNCHANGED <<dash_vars, audit_vars, login_vars>>

\* generate_report_pipe(company, start_date, end_date, report_name): dates
\* is "str" when the run was triggered by the dashboard (str(start_date)),
\* "date" when the function is called with date objects
StartReport(company_name, dates) ==
    /\ Idle
    /\ flow.run < MaxRuns
    /\ flow' = [NoFlow EXCEPT !.name = "generate_report_pipe",
                              !.run = flow.run + 1,
                              !.pc = ReportStages[1], !.k = 1,
                              !.company = company_name, !.dates = dates,
                              !.report_name = report_name(company_name, now)]
    /\ UNCHANGED <<s3, charts, files, stage_log>>
    /\ UNCHANGED <<dash_vars, audit_vars, login_vars>>

At(name, stage) == flow.name = name /\ flow.pc = stage

\* ingest(): ingest_data() downloads the export and uploads it
ingest(ok, object_name) ==
    /\ At("fluxo_principal", "ingest")
    /\ s3' = IF ok THEN Put(s3, IngestOutput(object_name), Content("ingest"))
                   ELSE s3
    /\ Step(ok, <<>>, <<Effect("s3", IngestOutput(object_name),
                                Content("ingest"))>>, NoChart)
    /\ UNCHANGED <<charts, files, dash_vars, audit_vars, login_vars>>

\* create_secret(), and the same statement of generate_report_pipe
create_secret(ok) ==
    /\ flow.pc = "create_secret"
    /\ files' = IF ok THEN Put(files, SecretFile, Content("create_secret"))
                      ELSE files
    /\ Step(ok, <<>>, <<Effect("files", SecretFile,
                                Content("create_secret"))>>, NoChart)
    /\ UNCHANGED <<s3, charts, dash_vars, audit_vars, login_vars>>

\* raw(): COPY (SELECT ... FROM the landing files) TO the raw file; the
\* query raises when no object matches the pattern
raw(ok) ==
    /\ At("fluxo_principal", "raw")
    /\ ok => \E loc \in DOMAIN s3 : Matches(loc, RawInput)
    /\ s3' = IF ok THEN Put(s3, RawOutput, Content("raw")) ELSE s3
    /\ Step(ok, <<RawInput>>, <<Effect("s3", RawOutput, Content("raw"))>>,
            NoChart)
    /\ UNCHANGED <<charts, files, dash_vars, audit_vars, login_vars>>

\* cleaned(): COPY (... FROM the raw file) TO the cleaned file
cleaned(ok) ==
    /\ At("fluxo_principal", "cleaned")
    /\ ok => CleanedInput \in DOMAIN s3
    /\ s3' = IF ok THEN Put(s3, CleanedOutput, Content("cleaned")) ELSE s3
    /\ Step(ok, <<CleanedInput>>,
            <<Effect("s3", CleanedOutput, Content("cleaned"))>>, NoChart)
    /\ UNCHANGED <<charts, files, dash_vars, audit_vars, login_vars>>

\* one turn of the loop of UpdateChart.run for chart c: get_chart,
\* add_filter, update_chart
UpdateChartTurn(c, company_name) ==
    LET r == add_filter(charts[c], company_name)
    IN  [id |-> c, company |-> company_name, before |-> charts[c],
         passed |-> r.chart_filter, result |-> r.result]

\* UpdateChart(...).run(), chart by chart (get_auth_token before the first)
UpdateChart(ok) ==
    /\ At("generate_report_pipe", "UpdateChart")
    /\ LET t == UpdateChartTurn(flow.k, flow.company)
       IN  /\ charts' = IF ok THEN [charts EXCEPT ![flow.k] = t.result]
                              ELSE charts
           /\ Step(ok, <<>>, <<>>, t)
    /\ UNCHANGED <<s3, files, dash_vars, audit_vars, login_vars>>

\* a second run of generate_report_pipe, triggered by another request and
\* executed at the same time (a flow run per trigger, no lock, no concurrency
\* limit): the turns of its UpdateChart loop so far, as stage_log holds them
RivalTurns ==
    SelectSeq(stage_log, LAMBDA e : e.run = NULL /\ e.stage = "UpdateChart")

\* the next turn of the rival's UpdateChart loop, for the company of its
\* request: get_chart, add_filter, update_chart on the same charts
RivalUpdateChart(company_name) ==
    LET k == Len(RivalTurns) + 1
        t == UpdateChartTurn(k, company_name)
    IN  /\ k <= MaxCharts
        /\ RivalTurns # <<>> => RivalTurns[1].chart.company = company_name
        /\ charts' = [charts EXCEPT ![k] = t.result]
        /\ stage_log' = Append(stage_log,
              [flow |-> "generate_report_pipe", run |-> NULL,
               stage |-> "UpdateChart", item |-> k, ok |-> TRUE,
               reads |-> <<>>, writes |-> <<>>, chart |-> t])
        /\ UNCHANGED <<flow, s3, files, dash_vars, audit_vars, login_vars>>

\* the two GET requests of ScreenshotChart.run for chart c:
\* {base_url}/api/v1/chart/{id}/cache_screenshot/ and the image_url it answers
CacheScreenshotUrl(c) ==
    Object("superset", <<"api", "v1", "chart", ToString(c)>>,
           <<"cache_screenshot">>)
ImageUrl(c) ==
    Object("superset", <<"api", "v1", "chart", ToString(c)>>,
           <<"screenshot">>)

\* the answers to the two requests: cache_screenshot answers 200 or 202 with
\* an image_url, or anything else; the image is served with 200 or not
CacheAnswers == {"image_url", "error"}
DownloadAnswers == {"image", "error"}

\* the requests one call of ScreenshotChart.run makes, in order:
\* cache_screenshot sends one GET and raises on any answer but 200/202;
\* after time.sleep(30) download_screenshot sends one GET to the image_url
ScreenshotRequests(c, cache) ==
    IF cache = "image_url" THEN <<CacheScreenshotUrl(c), ImageUrl(c)>>
    ELSE <<CacheScreenshotUrl(c)>>

\* ScreenshotChart(...).run(chart_id, name) of the loop over charts_mapping;
\* the image is written only when both requests were answered well
ScreenshotChart(cache, download) ==
    LET ok == cache = "image_url" /\ download = "image"
    IN  /\ At("generate_report_pipe", "ScreenshotChart")
        /\ cache = "error" => download = "error"
        /\ files' = IF ok THEN Put(files, ScreenshotFile(flow.k),
                                   Content("ScreenshotChart"))
                          ELSE files
        /\ Step(ok, ScreenshotRequests(flow.k, cache),
                <<Effect("files", ScreenshotFile(flow.k),
                         Content("ScreenshotChart"))>>, NoChart)
        /\ UNCHANGED <<s3, charts, dash_vars, audit_vars, login_vars>>

\* the comments query on the cleaned file
comments_query(ok) ==
    /\ At("generate_report_pipe", "comments_query")
    /\ ok => CommentsInput \in DOMAIN s3
    /\ Step(ok, <<CommentsInput>>, <<>>, NoChart)
    /\ UNCHANGED <<s3, charts, files, dash_vars, audit_vars, login_vars>>

\* client.chat.completions.create
summarize(ok) ==
    /\ At("generate_report_pipe", "summarize")
    /\ Step(ok, <<>>, <<>>, NoChart)
    /\ UNCHANGED <<s3, charts, files, dash_vars, audit_vars, login_vars>>

\* generate_report_pdf(output_path='report.pdf', ...): start_date.strftime
\* raises AttributeError on a str
generate_report_pdf(ok) ==
    /\ At("generate_report_pipe", "generate_report_pdf")
    /\ ok => flow.dates = "date"
    /\ files' = IF ok THEN Put(files, ReportFile,
                               Content("generate_report_pdf"))
                      ELSE files
    /\ Step(ok, <<>>, <<Effect("files", ReportFile,
                                Content("generate_report_pdf"))>>, NoChart)
    /\ UNCHANGED <<s3, charts, dash_vars, audit_vars, login_vars>>

\* s3.upload_file('report.pdf', MINIO_BUCKET, f'lm/reports/{report_name}')
upload_file(ok) ==
    /\ At("generate_report_pipe", "upload_file")
    /\ s3' = IF ok THEN Put(s3, UploadOutput(flow.report_name),
                            Content("upload_file"))
                   ELSE s3
    /\ Step(ok, <<ReportFile>>,
            <<Effect("s3", UploadOutput(flow.report_name),
                     Content("upload_file"))>>, NoChart)
    /\ UNCHANGED <<charts, files, dash_vars, audit_vars, login_vars>>

\* reports_page, "Baixar" on the row of a run that returned (the row holds
\* report_name as file_path): check_file_exists_in_s3, download_report_from_s3
download_report_from_s3 ==
    /\ At("generate_report_pipe", "returned")
    /\ stage_log[Len(stage_log)].stage # "download"
    /\ stage_log' = Append(stage_log,
          [flow |-> flow.name, run |-> flow.run, stage |-> "download",
           item |-> 0,
           ok |-> DownloadInput(flow.report_name) \in DOMAIN s3,
           reads |-> <<DownloadInput(flow.report_name)>>,
           writes |-> <<>>, chart |-> NoChart])
    /\ UNCHANGED <<flow, s3, charts, files>>
    /\ UNCHANGED <<dash_vars, audit_vars, login_vars>>

\* ---------------------------------------------- Preview and Baixar
\* how head_object ends: 200, a ClientError with code '404', a ClientError
\* with another code (403 without permission, 500), or another exception
\* (no connection); and how get_object ends: the body, a ClientError with
\* code 'NoSuchKey', or anything else raised
HeadAnswers == {"200", "404", "403", "error"}
GetAnswers == {"body", "NoSuchKey", "error"}

\* the answers the store can give for a key: 200 and the body only for an
\* object it holds, 404 and NoSuchKey only for one it does not hold
HeadPossible(loc, answer) ==
    /\ answer = "200" => loc \in DOMAIN s3
    /\ answer = "404" => loc \notin DOMAIN s3
GetPossible(loc, answer) ==
    /\ answer = "body" => loc \in DOMAIN s3
    /\ answer = "NoSuchKey" => loc \notin DOMAIN s3

\* check_file_exists_in_s3: True when head_object returns; for a ClientError
\* the value of Code != '404'; False for any other exception
check_file_exists_in_s3(answer) ==
    IF answer = "200" THEN TRUE
    ELSE IF answer \in {"404", "403"} THEN answer # "404"
    ELSE FALSE

\* download_report_from_s3: the bytes read, or None (FALSE) on any exception
download_content(answer) == answer = "body"

Request(op, loc, answer) == [op |-> op, loc |-> loc, answer |-> answer]

\* a call made for row id by a row action, as stage_log keeps it
RowEntry(stage, id, ok, reads) ==
    [flow |-> "reports_page", run |-> id, stage |-> stage, item |-> 0,
     ok |-> ok, reads |-> reads, writes |-> <<>>, chart |-> NoChart]

\* the test that lets any status through
Downloadable_any_status(status, file_path) == file_path # <<>>

\* if status == 'completed' and file_path
Downloadable(status, file_path) == status = "completed" /\ file_path # <<>>

\* the row the SELECT returns is one the action goes to the store for
Allowed(id) ==
    /\ id \in DOMAIN reports
    /\ Downloadable(reports[id].status, reports[id].file_path)

\* check_file_exists_in_s3(file_path), then download_report_from_s3(file_path)
\* when it answered True
FetchCalls(id, head, get) ==
    LET loc == DownloadInput(reports[id].file_path)
        exists == check_file_exists_in_s3(head)
    IN  <<RowEntry("check_file_exists_in_s3", id, exists,
                   <<Request("head_object", loc, head)>>)>>
        \o (IF exists
               THEN <<RowEntry("download_report_from_s3", id,
                               download_content(get),
                               <<Request("get_object", loc, get)>>)>>
               ELSE <<>>)

\* "if content": the action got the bytes of the report
Fetched(id, head, get) ==
    Allowed(id) /\ check_file_exists_in_s3(head) /\ download_content(get)

\* the answers of the calls the action makes (the others are left at "error")
Answers(id, head, get) ==
    IF Allowed(id)
        THEN /\ HeadPossible(DownloadInput(reports[id].file_path), head)
             /\ IF check_file_exists_in_s3(head)
                    THEN GetPossible(DownloadInput(reports[id].file_path), get)
                    ELSE get = "error"
        ELSE head = "error" /\ get = "error"

\* the calls of one row action, the latest action replacing the one before
RowActionLog(stage, id, head, get) ==
    <<RowEntry(stage, id, Fetched(id, head, get), <<>>)>>
        \o (IF Allowed(id) THEN FetchCalls(id, head, get) ELSE <<>>)

\* reports_page, "Preview" for the id typed into the number input
Preview(id, head, get) ==
    /\ Answers(id, head, get)
    /\ stage_log' = RowActionLog("Preview", id, head, get)
    /\ UNCHANGED <<flow, s3, charts, files>>
    /\ UNCHANGED <<dash_vars, audit_vars, login_vars>>

\* reports_page, "Baixar": the same, and log_audit 'download_report' once
\* the content is there
Baixar(id, u, head, get, applied) ==
    /\ u \in DOMAIN users
    /\ Answers(id, head, get)
    /\ stage_log' = RowActionLog("Baixar", id, head, get)
    /\ audit_logs' =
          IF Fetched(id, head, get)
              THEN log_audit(audit_logs, u, "download_report", id,
                             PyDict({<<PyStr("file_path"),
                                       PyStr(ToString(id))>>}), applied)
              ELSE audit_logs
    /\ UNCHANGED <<flow, s3, charts, files>>
    /\ UNCHANGED <<dash_vars, users, company_rows, actor, denied>>
    /\ UNCHANGED login_vars

\* UpdateChart(..., charts=[c], company).run() alone
UpdateChartRun(c, company_name) ==
    LET t == UpdateChartTurn(c, company_name)
    IN  /\ Len(stage_log) < MaxRuns
        /\ charts' = [charts EXCEPT ![c] = t.result]
        /\ stage_log' = Append(stage_log,
              [flow |-> "none", run |-> Len(stage_log) + 1,
               stage |-> "UpdateChart", item |-> c, ok |-> TRUE,
               reads |-> <<>>, writes |-> <<>>,
               chart |-> t])
        /\ UNCHANGED <<flow, s3, files>>
        /\ UNCHANGED <<dash_vars, audit_vars, login_vars>>

\* ----------------------------------------------------------- specifications
\* init_db on an empty database: the admin user, the example companies (two
\* of the names stand for the list), no audit entry
InitDb ==
    /\ audit_logs = EmptyBag
    /\ users = (1 :> [role |-> "admin"])
    /\ company_rows = ExampleCompanies
    /\ actor = [i \in ReportIds |-> NULL]
    /\ denied = <<>>

\* nobody has tried to log in
InitLogin ==
    /\ LOGIN_ATTEMPTS = [s \in Sessions |-> <<>>]
    /\ now = 0
    /\ auth_log = [last |-> NoCall,
                   failures |-> [e \in AllEmails |-> NoFailures]]

\* no flow run was started
InitPipe ==
    /\ flow = NoFlow
    /\ s3 = <<>>
    /\ charts = [c \in ChartIds |-> <<>>]
    /\ files = <<>>
    /\ stage_log = <<>>

\* no report was requested
InitDash ==
    /\ reports = <<>>
    /\ next_id = 1
    /\ flow_runs = {}
    /\ handler = [i \in ReportIds |-> "none"]
    /\ poller = [i \in ReportIds |-> NoPoller]
    /\ traced = {}
    /\ hist = [i \in ReportIds |-> <<>>]

Init ==
    /\ InitDash
    /\ InitDb
    /\ InitLogin
    /\ InitPipe

\* the dashboard with the audit store reachable: every log_audit INSERT is
\* applied
Next ==
    \/ \E u \in UserIds : GenInsert(u)
    \/ \E id \in ReportIds : GenTriggerOk(id, TRUE)
    \/ \E id \in ReportIds : GenTriggerFail(id)
    \/ \E id \in ReportIds, u \in UserIds : DeleteReport(id, u, TRUE)
    \/ \E id \in ReportIds : PollerStep(id)

Spec == Init /\ [][Next]_vars

\* two rows with their pollers running, the first just scheduled and the
\* second seen running once; an administrator may delete either
InitPollers ==
    /\ reports = (1 :> [NewRow("LM", 0) EXCEPT !.status = "scheduled",
                                               !.flow_run_id = FlowRunId(1)])
               @@ (2 :> [NewRow("A..B", 0) EXCEPT !.status = "running",
                                                 !.flow_run_id = FlowRunId(2)])
    /\ next_id = 3
    /\ flow_runs = {FlowRunId(1), FlowRunId(2)}
    /\ handler = [i \in ReportIds |-> IF i <= 2 THEN "triggered" ELSE "none"]
    /\ poller = [i \in ReportIds |->
                   IF i = 1
                       THEN [pc |-> "check", attempts |-> 0, checks |-> 0,
                             flow_run_id |-> FlowRunId(1), threads |-> 1]
                   ELSE IF i = 2
                       THEN [pc |-> "check", attempts |-> 1, checks |-> 1,
                             flow_run_id |-> FlowRunId(2), threads |-> 1]
                   ELSE NoPoller]
    /\ traced = {}
    /\ hist = [i \in ReportIds |-> <<>>]
    /\ audit_logs = SetToBag({AuditRow(1, "generate_report", i,
                                       GenerateDetails(i)) : i \in {1, 2}})
    /\ users = (1 :> [role |-> "admin"])
    /\ company_rows = ExampleCompanies
    /\ actor = [i \in ReportIds |-> IF i <= 2 THEN 1 ELSE NULL]
    /\ denied = <<>>
    /\ InitLogin
    /\ InitPipe

NextPollers ==
    \/ \E id \in ReportIds : PollerStep(id)
    \/ \E id \in ReportIds, u \in UserIds : DeleteReport(id, u, TRUE)

SpecPollers == InitPollers /\ [][NextPollers]_vars

\* requests for either company by either session while the clock runs, each
\* followed by the answer of the trigger
NextRequests ==
    \/ \E u \in UserIds, c \in ReportCompanies : GenRequest(u, c)
    \/ \E id \in ReportIds : GenTriggerOk(id, TRUE)
    \/ \E id \in ReportIds : GenTriggerFail(id)
    \/ Tick

SpecRequests == Init /\ [][NextRequests]_vars

\* the handler statement by statement, beside the pollers it started
NextHandler ==
    \/ \E u \in UserIds : GenInsert(u)
    \/ \E id \in ReportIds : GenTriggerAnswer(id)
    \/ \E id \in ReportIds : GenTriggerFail(id)
    \/ \E id \in ReportIds : GenUpdateScheduled(id)
    \/ \E id \in ReportIds : GenLogAudit(id, TRUE)
    \/ \E id \in ReportIds : GenStartPoller(id)
    \/ \E id \in ReportIds : PollerStep(id)

SpecHandler == Init /\ [][NextHandler]_vars

\* the state right after a successful request for row 1: the row is
\* scheduled with its flow run id and poll_flow_status(1, 1) starts
InitPoll ==
    /\ reports = (1 :> [NewRow("LM", 0) EXCEPT !.status = "scheduled",
                                               !.flow_run_id = FlowRunId(1)])
    /\ next_id = 2
    /\ flow_runs = {FlowRunId(1)}
    /\ handler = [i \in ReportIds |-> IF i = 1 THEN "triggered" ELSE "none"]
    /\ poller = [i \in ReportIds |->
                   IF i = 1 THEN [NoPoller EXCEPT !.pc = "check",
                                                  !.flow_run_id = FlowRunId(1),
                                                  !.threads = 1]
                   ELSE NoPoller]
    /\ traced = {1}
    /\ hist = [i \in ReportIds |-> <<>>]
    /\ audit_logs = SetToBag({AuditRow(1, "generate_report", 1,
                                       GenerateDetails(1))})
    /\ users = (1 :> [role |-> "admin"])
    /\ company_rows = ExampleCompanies
    /\ actor = [i \in ReportIds |-> IF i = 1 THEN 1 ELSE NULL]
    /\ denied = <<>>
    /\ InitLogin
    /\ InitPipe

NextPoll == \E id \in ReportIds : id \in traced /\ PollerStep(id)

SpecPoll == InitPoll /\ [][NextPoll]_vars

\* the poller is a thread of a running process: it keeps taking steps (every
\* request carries timeout=10 and every sleep returns)
SpecPollFair == SpecPoll /\ WF_vars(NextPoll)

\* one report requested by the admin, completed and polled to the end
InitAudit ==
    /\ reports = (1 :> [NewRow("LM", 0) EXCEPT !.status = "completed",
                                               !.flow_run_id = FlowRunId(1)])
    /\ next_id = 2
    /\ flow_runs = {FlowRunId(1)}
    /\ handler = [i \in ReportIds |-> IF i = 1 THEN "triggered" ELSE "none"]
    /\ poller = [i \in ReportIds |->
                   IF i = 1 THEN [pc |-> "done", attempts |-> 0, checks |-> 1,
                                  flow_run_id |-> FlowRunId(1), threads |-> 1]
                   ELSE NoPoller]
    /\ traced = {}
    /\ hist = [i \in ReportIds |-> <<>>]
    /\ audit_logs = SetToBag({AuditRow(1, "generate_report", 1,
                                       GenerateDetails(1))})
    /\ users = (1 :> [role |-> "admin"])
    /\ company_rows = ExampleCompanies
    /\ actor = [i \in ReportIds |-> IF i = 1 THEN 1 ELSE NULL]
    /\ denied = <<>>
    /\ InitLogin
    /\ InitPipe

\* new requests are made while audit_logs holds fewer than MaxAuditRows rows
AuditBudget == BagCardinality(audit_logs) < MaxAuditRows

\* every handler of the dashboard that writes to the store, used by the
\* users in any order, each log_audit INSERT applied; the pollers the
\* requests start do not get to run (PollIteration and PollTimeout leave
\* the audit log and the users as they are)

NextAudit ==
    \/ \E u \in UserIds : AuditBudget /\ GenInsert(u)
    \/ \E id \in ReportIds : GenTriggerOk(id, TRUE)
    \/ \E id \in ReportIds : GenTriggerFail(id)
    \/ \E id \in ReportIds, u \in UserIds : DeleteReport(id, u, TRUE)
    \/ \E id \in ReportIds, u \in UserIds : DownloadReport(id, u, TRUE)
    \/ \E u \in UserIds, name \in CompanyNames :
          AuditBudget /\ AddCompany(u, name, TRUE)
    \/ \E u \in UserIds, role \in Roles :
          AuditBudget /\ AddUser(u, role, TRUE)
    \/ \E u \in UserIds : Login(u, TRUE)
    \/ \E u \in UserIds : Logout(u, TRUE)

SpecAudit == InitAudit /\ [][NextAudit]_vars

\* the reports page used by an admin and a user the admin has added, next to
\* the pollers, for MaxAuditReports requests
InitReports ==
    /\ InitDash
    /\ audit_logs = SetToBag({AuditRow(1, "add_user", 2,
                          PyDict({<<PyStr("role"), PyStr("user")>>}))})
    /\ users = (1 :> [role |-> "admin"]) @@ (2 :> [role |-> "user"])
    /\ company_rows = ExampleCompanies
    /\ actor = [i \in ReportIds |-> NULL]
    /\ denied = <<>>
    /\ InitLogin
    /\ InitPipe

NextReports ==
    \/ \E u \in UserIds : next_id <= MaxAuditReports /\ GenInsert(u)
    \/ \E id \in ReportIds : GenTriggerOk(id, TRUE)
    \/ \E id \in ReportIds : GenTriggerFail(id)
    \/ \E id \in ReportIds, u \in UserIds : DeleteReport(id, u, TRUE)
    \/ \E id \in ReportIds, u \in UserIds : DeleteDenied(id, u)
    \/ \E id \in ReportIds, u \in UserIds : DownloadReport(id, u, TRUE)
    \/ \E id \in ReportIds : PollerStep(id)

SpecReports == InitReports /\ [][NextReports]_vars

\* log_audit called with every payload of DetailPayloads
DetailPayloads ==
    {PyNone,
     PyDict({}),
     PyDict({<<PyStr("name"), PyStr("Nova Empresa")>>}),
     PyDict({<<PyStr("file_path"), PyStr("1")>>, <<PyStr("n"), PyInt("1")>>}),
     PyDict({<<PyInt("1"), PyStr("x")>>})}

LogAuditCall(action, details, applied) ==
    /\ BagCardinality(audit_logs) < MaxAuditRows
    /\ audit_logs' = log_audit(audit_logs, 1, action, NULL, details, applied)
    /\ UNCHANGED <<dash_vars, users, company_rows, actor, denied>>
    /\ UNCHANGED <<login_vars, pipe_vars>>

NextLogAudit ==
    \E action \in {"add_company", "download_report"},
       details \in DetailPayloads, applied \in BOOLEAN :
        LogAuditCall(action, details, applied)

SpecLogAudit == Init /\ [][NextLogAudit]_vars

\* the login form, used from every browser session while time passes
NextLogin ==
    \/ Tick
    \/ \E s \in Sessions, email \in Emails, password \in Passwords,
          db_ok \in BOOLEAN : authenticate(s, email, password, db_ok)

SpecLogin == Init /\ [][NextLogin]_vars

\* the login form of one browser session
NextAttempts ==
    \/ Tick
    \/ \E email \in AllEmails, password \in Passwords, db_ok \in BOOLEAN :
          authenticate(1, email, password, db_ok)

SpecAttempts == Init /\ [][NextAttempts]_vars

\* the object store as a run may find it: empty, holding a landing file put
\* there by hand, or holding also the files of an earlier run
ManualLanding == Object("hawkeye", <<"lm", "landing">>, <<"manual.csv">>)
Earlier == [by |-> "operator", run |-> 0]
InitialStores ==
    {<<>>,
     (ManualLanding :> Earlier),
     (ManualLanding :> Earlier) @@ (RawOutput :> Earlier)
        @@ (CleanedOutput :> Earlier)}

\* the adhoc_filters a chart holds before the first run (SpecFilter starts
\* from every list of FilterLists)
InitialFilterLists ==
    {<<AdhocFilter("unidade", "IN", <<"Outra">>, "SIMPLE"),
       AdhocFilter("regiao", "IN", <<"Norte">>, "SIMPLE")>>}

InitPipeRuns ==
    /\ InitDash
    /\ InitDb
    /\ InitLogin
    /\ flow = NoFlow
    /\ s3 \in InitialStores
    /\ charts \in {[c \in ChartIds |-> l] : l \in InitialFilterLists}
    /\ files = <<>>
    /\ stage_log = <<>>

\* up to MaxRuns runs of the two flows, one after the other, every stage
\* returning or raising, and the download of a report whose run returned
NextPipe ==
    \/ StartIngest
    \/ \E c \in ReportCompanies, d \in {"date", "str"} : StartReport(c, d)
    \/ \E ok \in BOOLEAN, n \in DownloadNames : ingest(ok, n)
    \/ \E ok \in BOOLEAN : create_secret(ok)
    \/ \E ok \in BOOLEAN : raw(ok)
    \/ \E ok \in BOOLEAN : cleaned(ok)
    \/ \E ok \in BOOLEAN : UpdateChart(ok)
    \/ \E cache \in CacheAnswers, download \in DownloadAnswers :
          ScreenshotChart(cache, download)
    \/ \E ok \in BOOLEAN : comments_query(ok)
    \/ \E ok \in BOOLEAN : summarize(ok)
    \/ \E ok \in BOOLEAN : generate_report_pdf(ok)
    \/ \E ok \in BOOLEAN : upload_file(ok)
    \/ download_report_from_s3

SpecPipe == InitPipeRuns /\ [][NextPipe]_vars

\* UpdateChart.run on one chart that holds any list of FilterLists, run
\* again and again
\* a completed report whose file the flow uploaded, or whose file is not in
\* the store
InitRowActions ==
    /\ reports = (1 :> [NewRow("LM", 0) EXCEPT !.status = "completed",
                                               !.flow_run_id = FlowRunId(1)])
    /\ next_id = 2
    /\ flow_runs = {FlowRunId(1)}
    /\ handler = [i \in ReportIds |-> IF i = 1 THEN "triggered" ELSE "none"]
    /\ poller = [i \in ReportIds |->
                   IF i = 1 THEN [pc |-> "done", attempts |-> 0, checks |-> 1,
                                  flow_run_id |-> FlowRunId(1), threads |-> 1]
                   ELSE NoPoller]
    /\ traced = {}
    /\ hist = [i \in ReportIds |-> <<>>]
    /\ audit_logs = SetToBag({AuditRow(1, "generate_report", 1,
                                       GenerateDetails(1))})
    /\ users = (1 :> [role |-> "admin"])
    /\ company_rows = ExampleCompanies
    /\ actor = [i \in ReportIds |-> IF i = 1 THEN 1 ELSE NULL]
    /\ denied = <<>>
    /\ InitLogin
    /\ flow = NoFlow
    /\ s3 \in {<<>>,
                (UploadOutput(report_name("LM", 0)) :>
                    [by |-> "upload_file", run |-> 1])}
    /\ charts = [c \in ChartIds |-> <<>>]
    /\ files = <<>>
    /\ stage_log = <<>>

\* the row actions on any id, beside new requests whose trigger fails and an
\* administrator deleting rows
NextRowActions ==
    \/ \E id \in ReportIds, head \in HeadAnswers, get \in GetAnswers :
          Preview(id, head, get)
    \/ \E id \in ReportIds, u \in UserIds, head \in HeadAnswers,
          get \in GetAnswers :
          AuditBudget /\ Baixar(id, u, head, get, TRUE)
    \/ \E u \in UserIds : AuditBudget /\ GenInsert(u)
    \/ \E id \in ReportIds : GenTriggerFail(id)
    \/ \E id \in ReportIds, u \in UserIds : DeleteReport(id, u, TRUE)

SpecRowActions == InitRowActions /\ [][NextRowActions]_vars

\* one run of generate_report_pipe through its two chart stages while the
\* UpdateChart stage of a second run goes on
NextRivals ==
    \/ \E c \in ReportCompanies, d \in {"date", "str"} : StartReport(c, d)
    \/ \E ok \in BOOLEAN : UpdateChart(ok)
    \/ \E cache \in CacheAnswers, download \in DownloadAnswers :
          ScreenshotChart(cache, download)
    \/ \E c \in ReportCompanies : RivalUpdateChart(c)

SpecRivals == InitPipeRuns /\ [][NextRivals]_vars

InitFilter ==
    /\ InitDash
    /\ InitDb
    /\ InitLogin
    /\ flow = NoFlow
    /\ s3 = <<>>
    /\ charts \in {[c \in ChartIds |-> IF c = 1 THEN l ELSE <<>>] :
                        l \in FilterLists}
    /\ files = <<>>
    /\ stage_log = <<>>

NextFilter == \E c \in ReportCompanies : UpdateChartRun(1, c)

SpecFilter == InitFilter /\ [][NextFilter]_vars

\* ------------------------------------------------- vocabulary of the claims
\* the terminal external states and the mapping, as the specification lists
\* them
TerminalExt == {"COMPLETED", "FAILED", "CANCELLED", "CRASHED"}

Mapped(s) ==
    CASE s = "SCHEDULED" -> "scheduled"
      [] s = "PENDING"   -> "pending"
      [] s = "RUNNING"   -> "running"
      [] s = "COMPLETED" -> "completed"
      [] s = "FAILED"    -> "failed"
      [] s = "CANCELLED" -> "cancelled"
      [] s = "CRASHED"   -> "failed"
      [] OTHER           -> "pending"

TerminalStatus == {"completed", "failed", "cancelled", "timeout"}
NonTerminalStatus == {"pending", "scheduled", "running"}

\* the observations of a traced poller
Checks(id) == SelectSeq(hist[id], LAMBDA e : e.kind = "check")
Seen(id) == SelectSeq(hist[id], LAMBDA e : e.kind = "check" /\ e.success)
SeenStates(id) == LET s == Seen(id) IN [i \in DOMAIN s |-> s[i].status]
Writes(id) == SelectSeq(hist[id], LAMBDA e : e.kind = "write")
Written(id) == LET w == Writes(id) IN [i \in DOMAIN w |-> w[i].status]
TerminalSeen(id) ==
    \E i \in DOMAIN hist[id] :
        /\ hist[id][i].kind = "check"
        /\ hist[id][i].success
        /\ hist[id][i].status \in TerminalExt
Last(seq) == seq[Len(seq)]

\* ------------------------------------------------------------------ claims

\* C1: when a terminal external state is observed within max_attempts checks
\* (the last permitted check included), the Job Record's final status is the
\* mapped terminal status, the loop exits at that check below the attempt
\* ceiling, and no timeout status is written.
C1_TerminalWithinBudget ==
    \A id \in traced :
        (TerminalSeen(id) /\ Len(Checks(id)) <= max_attempts) =>
            /\ poller[id].pc = "done"
            /\ Last(hist[id]).kind = "write"
            /\ poller[id].attempts < max_attempts
            /\ "timeout" \notin {Written(id)[i] : i \in DOMAIN Written(id)}
            /\ id \in DOMAIN reports =>
                  reports[id].status = Mapped(Last(SeenStates(id)))

\* C2: when no terminal external state is observed within max_attempts
\* checks, the poller ends by writing timeout and the Job Record's final
\* status is timeout, whatever the last observed external state.
C2_TimeoutForced ==
    \A id \in traced :
        (poller[id].pc = "done" /\ ~TerminalSeen(id)) =>
            /\ Len(Checks(id)) = max_attempts
            /\ Last(hist[id]).kind = "write"
            /\ Last(hist[id]).status = "timeout"
            /\ id \in DOMAIN reports => reports[id].status = "timeout"

\* C3: the status the poller writes for an observed external state is given
\* by the fixed table (CRASHED -> failed, unknown and missing -> pending), the
\* same state always yields the same status, and that status is what the
\* record holds once the write is applied.
C3_StatusMapping ==
    \A id \in traced :
        LET ev == hist[id]
            n == Len(ev)
            ok == {i \in 1..n : ev[i].kind = "check" /\ ev[i].success}
        IN  /\ \A i \in ok :
                  /\ i < n
                  /\ ev[i + 1].kind = "write"
                  /\ ev[i + 1].status = Mapped(ev[i].status)
            /\ \A i, j \in ok :
                  (i < n /\ j < n /\ ev[i].status = ev[j].status) =>
                      ev[i + 1].status = ev[j + 1].status
            /\ \A i \in ok :
                  (/\ i < n /\ ev[i + 1].applied
                   /\ n <= i + 2
                   /\ id \in DOMAIN reports) =>
                      reports[id].status = Mapped(ev[i].status)

C3_Witness ==
    \E id \in traced :
        /\ Len(SeenStates(id)) = 4
        /\ SeenStates(id)[1] = "PAUSED"
        /\ SeenStates(id)[2] = "None"
        /\ SeenStates(id)[3] = "RUNNING"
        /\ SeenStates(id)[4] = "CRASHED"
        /\ Written(id) = <<"pending", "pending", "running", "failed">>
        /\ id \in DOMAIN reports
        /\ reports[id].status = "failed"

\* C4: for successfully polled states s1..sn whose first terminal state is
\* sn, the statuses the poller writes are exactly map(s1)..map(sn), in order
\* and one per check, and no check follows the n-th.
C4_WritesFollowChecks ==
    \A id \in traced :
        LET seen == SeenStates(id)
            written == Written(id)
            checks == Checks(id)
            n == Len(seen)
        IN  /\ \A i \in 1..n : i < n => seen[i] \notin TerminalExt
            /\ Len(written) >= n
            /\ \A i \in 1..n : written[i] = Mapped(seen[i])
            /\ (n > 0 /\ seen[n] \in TerminalExt) =>
                  /\ Len(written) = n
                  /\ checks[Len(checks)].success
                  /\ poller[id].pc = "done"

C4_Witness ==
    \E id \in traced :
        /\ SeenStates(id) = <<"PENDING", "RUNNING", "RUNNING", "COMPLETED">>
        /\ Written(id) = <<"pending", "running", "running", "completed">>
        /\ Len(Checks(id)) = 4
        /\ poller[id].pc = "done"

C6_TerminalIsFinal ==
    [][\A id \in DOMAIN reports \cap DOMAIN reports' :
          reports[id].status \in TerminalStatus =>
              reports'[id].status = reports[id].status]_vars

C6_Witness ==
    \E id, other \in ReportIds :
        /\ id \in DOMAIN reports
        /\ reports[id].status = "failed"
        /\ poller[id].pc = "done"
        /\ poller[id].attempts > 0
        /\ other # id
        /\ poller[other].pc = "check"

\* the transitions of the specified state machine
SpecTransitions ==
    {<<"pending", "scheduled">>, <<"scheduled", "running">>,
     <<"running", "completed">>, <<"running", "failed">>,
     <<"running", "cancelled">>, <<"pending", "failed">>}
    \cup (NonTerminalStatus \X {"timeout"})

\* C7 as stated: every status change follows a transition of the specified
\* state machine.
C7_SpecifiedTransitionsOnly ==
    [][\A id \in DOMAIN reports \cap DOMAIN reports' :
          reports'[id].status # reports[id].status =>
              <<reports[id].status, reports'[id].status>> \in SpecTransitions
      ]_vars

\* C7 amended: a status change made by the generation handler is
\* pending -> scheduled or pending -> failed; a status change made by a
\* poller leaves a non-terminal status for the mapped status of the state it
\* observed, whatever the previous status was, or for timeout once the
\* attempts are used up.
C7_ActualTransitions ==
    [][\A id \in DOMAIN reports \cap DOMAIN reports' :
          reports'[id].status # reports[id].status =>
              IF handler'[id] # handler[id]
                 THEN <<reports[id].status, reports'[id].status>> \in
                         {<<"pending", "scheduled">>, <<"pending", "failed">>}
                 ELSE /\ reports[id].status \in NonTerminalStatus
                      /\ \/ /\ poller[id].pc = "check"
                            /\ \E s \in ExtStates :
                                  reports'[id].status = Mapped(s)
                         \/ /\ poller[id].pc = "timeout"
                            /\ poller[id].attempts >= max_attempts
                            /\ reports'[id].status = "timeout"
      ]_vars

C7_Witness ==
    \E id \in DOMAIN reports :
        /\ reports[id].status = "pending"
        /\ poller[id].pc = "check"
        /\ poller[id].attempts > 0

\* C8 as stated: every iteration of the loop performs exactly one status
\* request and exactly one write of the mapped status.
C8_OneRequestOneWrite ==
    \A id \in traced :
        /\ Len(Checks(id)) = poller[id].checks
        /\ poller[id].pc = "check" => Len(Writes(id)) = Len(Checks(id))

\* C8 amended: every iteration performs exactly one status request; when the
\* request succeeds it performs exactly one write of the mapped status,
\* whether or not the status changed, and when the request fails it performs
\* no write.
C8_OneRequestAtMostOneWrite ==
    \A id \in traced :
        LET ev == hist[id] IN
        /\ Len(Checks(id)) = poller[id].checks
        /\ \A i \in DOMAIN ev :
              ev[i].kind = "check" =>
                  /\ i < Len(ev)
                  /\ IF ev[i].success
                        THEN /\ ev[i + 1].kind = "write"
                             /\ ev[i + 1].status = Mapped(ev[i].status)
                             /\ i + 2 <= Len(ev) => ev[i + 2].kind = "sleep"
                        ELSE ev[i + 1].kind = "sleep"
        /\ \A i \in DOMAIN ev :
              (ev[i].kind = "write" /\ ev[i].status # "timeout") =>
                  i > 1 /\ ev[i - 1].kind = "check" /\ ev[i - 1].success

C8_Witness ==
    \E id \in traced :
        /\ Len(Checks(id)) = 3
        /\ ~Checks(id)[1].success
        /\ Checks(id)[2].success /\ Checks(id)[2].status = "RUNNING"
        /\ Checks(id)[3].success /\ Checks(id)[3].status = "RUNNING"
        /\ Written(id) = <<"running", "running">>

\* C9: after a poll in which the status request or the store write failed,
\* the poller sleeps one interval and polls again, so that the failed step is
\* retried on the next tick or the record ends as timeout.
C9_FailedPollRetried ==
    \A id \in traced :
        LET ev == hist[id]
            failed(i) ==
                \/ ev[i].kind = "check" /\ ~ev[i].success
                \/ ev[i].kind = "write" /\ ev[i].status # "timeout"
                                        /\ ~ev[i].applied
        IN  \A i \in DOMAIN ev :
                failed(i) =>
                    /\ i < Len(ev)
                    /\ ev[i + 1].kind = "sleep"
                    /\ poller[id].pc = "done" =>
                          \/ \E j \in DOMAIN ev : j > i /\ ev[j].kind = "check"
                          \/ id \in DOMAIN reports =>
                                reports[id].status = "timeout"

\* C10: the poller terminates; it makes at most max_attempts status checks,
\* and a failed check uses up one attempt exactly like a successful
\* non-terminal one.
C10_BoundedTermination ==
    /\ [](\A id \in traced :
            LET checks == Checks(id) IN
            /\ poller[id].checks <= max_attempts
            /\ Len(checks) <= max_attempts
            /\ poller[id].attempts =
                  Cardinality({i \in DOMAIN checks :
                                  \/ ~checks[i].success
                                  \/ checks[i].status \notin TerminalExt}))
    /\ <>(\A id \in traced : poller[id].pc = "done")

C10_Witness ==
    \E id \in traced :
        /\ poller[id].pc = "done"
        /\ Len(Checks(id)) = max_attempts
        /\ ~Checks(id)[1].success
        /\ Checks(id)[2].success
        /\ ~Last(Checks(id)).success

\* ------------------------------------------------------ claims C11 to C20
\* the stages a run has executed, in the order they ended
RunLog(r) ==
    SelectSeq(stage_log, LAMBDA e : e.run = r /\ e.stage # "download")
Runs == {stage_log[i].run : i \in DOMAIN stage_log}

\* C11: when a stage of a run raises, no stage after it is executed in that
\* run, no stage (or turn of a loop) is executed a second time, and the
\* exception leaves the flow function: the run ends raised with the
\* exception of that stage.
C11_FailureAborts ==
    \A r \in Runs :
        LET log == RunLog(r) IN
        /\ \A i \in DOMAIN log : ~log[i].ok => i = Len(log)
        /\ \A i, j \in DOMAIN log :
              i < j => <<log[i].stage, log[i].item>>
                          # <<log[j].stage, log[j].item>>
        /\ (r = flow.run /\ log # <<>> /\ ~log[Len(log)].ok) =>
              /\ flow.pc = "raised"
              /\ flow.exception = log[Len(log)].stage
        /\ (r = flow.run /\ flow.pc = "returned") =>
              \A i \in DOMAIN log : log[i].ok

C11_Witness ==
    /\ flow.name = "generate_report_pipe"
    /\ flow.pc = "raised"
    /\ flow.exception = "comments_query"
    /\ \E r \in Runs :
          /\ r < flow.run
          /\ RunLog(r) # <<>>
          /\ RunLog(r)[Len(RunLog(r))].stage = "raw"
          /\ ~RunLog(r)[Len(RunLog(r))].ok

\* the order of the stages as the specification gives it
ClaimedIngestOrder ==
    <<<<"ingest", 0>>, <<"create_secret", 0>>, <<"raw", 0>>,
      <<"cleaned", 0>>>>
ClaimedReportOrder ==
    [i \in 1..MaxCharts |-> <<"UpdateChart", i>>]
        \o [i \in 1..MaxCharts |-> <<"ScreenshotChart", i>>]
        \o <<<<"comments_query", 0>>, <<"summarize", 0>>,
             <<"generate_report_pdf", 0>>, <<"upload_file", 0>>>>
ClaimedOrder(name) ==
    IF name = "fluxo_principal" THEN ClaimedIngestOrder
    ELSE ClaimedReportOrder
\* the stages of a run that the specification names
Claimed(r) ==
    LET log == SelectSeq(RunLog(r),
                   LAMBDA e : e.flow = "fluxo_principal"
                                \/ e.stage # "create_secret")
    IN  [i \in DOMAIN log |-> <<log[i].stage, log[i].item>>]
IsPrefix(a, b) == Len(a) <= Len(b) /\ a = SubSeq(b, 1, Len(a))

\* C12: within a run the stages execute one after another in the fixed
\* order, each starting only when the previous has returned: ingest,
\* create_secret, raw, cleaned; and for the report pipeline the filter
\* update of all charts, the screenshots of all charts, the comments query,
\* the summary, the PDF and last the upload, which happens only if every
\* earlier stage succeeded.
C12_FixedOrder ==
    \A r \in Runs :
        LET log == RunLog(r)
            order == ClaimedOrder(log[1].flow)
        IN  /\ \A i \in DOMAIN log : log[i].flow = log[1].flow
            /\ IsPrefix(Claimed(r), order)
            /\ \A i \in DOMAIN log : i < Len(log) => log[i].ok
            /\ (r = flow.run /\ ~Idle /\ <<flow.name, flow.pc>>
                    # <<"generate_report_pipe", "create_secret">>) =>
                  /\ Len(Claimed(r)) < Len(order)
                  /\ order[Len(Claimed(r)) + 1] =
                        <<flow.pc,
                          IF flow.pc \in LoopStages THEN flow.k ELSE 0>>
            /\ \A i \in DOMAIN log :
                  log[i].stage = "upload_file" =>
                      /\ Len(Claimed(r)) = Len(order)
                      /\ \A j \in 1..(i - 1) : log[j].ok

C12_Witness ==
    /\ flow.name = "generate_report_pipe"
    /\ flow.pc = "returned"
    /\ Len(RunLog(flow.run)) = Len(ClaimedReportOrder) + 1
    /\ \E r \in Runs :
          /\ r < flow.run
          /\ Claimed(r) = ClaimedIngestOrder
          /\ RunLog(r)[4].ok

\* the store an effect was made in
Store(name) == IF name = "s3" THEN s3 ELSE files
\* every effect the stages of the current run have produced is as the stage
\* left it
EffectsKept ==
    LET log == RunLog(flow.run) IN
    \A i \in DOMAIN log :
        /\ \A w \in DOMAIN log[i].writes :
              LET e == log[i].writes[w] IN
              /\ e.loc \in DOMAIN Store(e.store)
              /\ Store(e.store)[e.loc] = e.content
        /\ log[i].chart # NoChart =>
              charts[log[i].chart.id] = log[i].chart.result

\* C14: when a stage of a run fails, the effects the earlier stages of the
\* run produced (uploaded landing file, raw and cleaned files, chart
\* filters, screenshots) are exactly as those stages produced them, and the
\* failing step itself changes no store and no chart.
C14_NoRollback ==
    [][/\ flow'.pc = "raised" => EffectsKept'
       /\ (flow.pc # "raised" /\ flow'.pc = "raised") =>
             /\ s3' = s3
             /\ files' = files
             /\ charts' = charts
             /\ EffectsKept]_vars

C14_Witness ==
    /\ flow.name = "fluxo_principal"
    /\ flow.pc = "raised"
    /\ flow.exception = "cleaned"
    /\ Len(RunLog(flow.run)) = 4
    /\ \E r \in Runs :
          /\ r < flow.run
          /\ RunLog(r)[Len(RunLog(r))].stage = "ScreenshotChart"
          /\ ~RunLog(r)[Len(RunLog(r))].ok
          /\ Len(RunLog(r)) > MaxCharts

\* C13: each stage reads the location the previous stage wrote: raw reads
\* the landing prefix ingest_data uploaded to, cleaned reads the file raw
\* wrote, the comments query reads the file cleaned wrote, and the dashboard
\* downloads a report from the key the report pipeline uploaded it to.
C13_StagesChain ==
    \A i, j \in DOMAIN stage_log :
        LET a == stage_log[i]
            b == stage_log[j]
        IN  (i < j /\ a.ok /\ a.writes # <<>>) =>
            /\ (a.stage = "ingest" /\ b.stage = "raw" /\ a.run = b.run) =>
                  Matches(a.writes[1].loc, b.reads[1])
            /\ (a.stage = "raw" /\ b.stage = "cleaned" /\ a.run = b.run) =>
                  b.reads[1] = a.writes[1].loc
            /\ (a.stage = "cleaned" /\ b.stage = "comments_query") =>
                  b.reads[1] = a.writes[1].loc
            /\ (a.stage = "upload_file" /\ b.stage = "download"
                    /\ a.run = b.run) =>
                  b.reads[1] = a.writes[1].loc

\* the turns of UpdateChart.run that were made
Turns ==
    SelectSeq(stage_log, LAMBDA e : e.stage = "UpdateChart" /\ e.ok)
Count(list, subject) ==
    Cardinality({i \in DOMAIN list : list[i].subject = subject})

\* C20: add_filter returns the input filters whose subject is neither
\* unidade nor data_inicial, in their order, followed by exactly one
\* TEMPORAL_RANGE filter on data_inicial fixed to 'Last week' and exactly one
\* filter on unidade restricted to the company; the input list is left as it
\* was; and repeated runs against a chart never leave it with more than one
\* filter for each of the two subjects.
C20_AddFilter ==
    \A t \in DOMAIN Turns :
        LET in == Turns[t].chart.before
            out == Turns[t].chart.result
            kept == SelectSeq(in,
                LAMBDA x : x.subject \notin {"unidade", "data_inicial"})
            n == Len(kept)
        IN  /\ Len(out) = n + 2
            /\ SubSeq(out, 1, n) = kept
            /\ \E d, u \in {n + 1, n + 2} :
                  /\ d # u
                  /\ out[d].subject = "data_inicial"
                  /\ out[d].operator = "TEMPORAL_RANGE"
                  /\ out[d].comparator = <<"Last week">>
                  /\ out[u].subject = "unidade"
                  /\ out[u].comparator = <<Turns[t].chart.company>>
            /\ Turns[t].chart.passed = in
            /\ Count(out, "unidade") = 1
            /\ Count(out, "data_inicial") = 1
            /\ Count(charts[Turns[t].chart.id], "unidade") = 1
            /\ Count(charts[Turns[t].chart.id], "data_inicial") = 1

C20_Witness ==
    /\ Len(Turns) >= 2
    /\ Turns[1].chart.id = Turns[2].chart.id
    /\ Turns[2].chart.before = Turns[1].chart.result
    /\ Turns[1].chart.company # Turns[2].chart.company
    /\ Len(Turns[1].chart.before) = 2
    /\ Turns[1].chart.before[1].subject = "unidade"
    /\ Turns[1].chart.before[2].subject = "regiao"
    /\ Len(Turns[2].chart.result) = 3

\* the rows a step adds to audit_logs
Added(r) == CopiesIn(r, audit_logs') > CopiesIn(r, audit_logs)

\* C15: for every mapping passed to log_audit as details, the empty one
\* included, the details column of the row written, re-read and
\* deserialized, equals the mapping passed in.
C15_DetailsRoundTrip ==
    [][\A action \in {"add_company", "download_report"},
          details \in DetailPayloads :
            (details.t = "dict" /\ LogAuditCall(action, details, TRUE)) =>
                \A r \in BagToSet(audit_logs') :
                    Added(r) => read_details(r.details) = details]_vars

\* C16: after MAX_LOGIN_ATTEMPTS failed authentications for an identifier,
\* each at most LOCKOUT_DURATION after the one before, every authenticate
\* call for the identifier is rejected with the rate-limit error, whatever
\* the password, until LOCKOUT_DURATION has passed since the last failure;
\* after that the identifier is allowed again and its count starts anew.
C16_RateLimit ==
    LET c == auth_log.last
        locked == c.before.n >= MAX_LOGIN_ATTEMPTS
    IN  (c.outcome # "none" /\ validate_email(c.email)) =>
        /\ (locked /\ c.time - c.before.last < LOCKOUT_DURATION) =>
              c.outcome = "rate_limit"
        /\ (locked /\ c.time - c.before.last > LOCKOUT_DURATION) =>
              /\ c.outcome # "rate_limit"
              /\ c.outcome = "None" =>
                    LOGIN_ATTEMPTS[c.session][c.email].count = 1
        /\ c.outcome = "rate_limit" => locked

Entry(user_id, action, target_id) ==
    \E r \in BagToSet(audit_logs) :
        /\ r.user_id = user_id
        /\ r.action = action
        /\ r.target_id = target_id

\* C17: every authenticated action that changes persistent state (report
\* generation whether its trigger succeeds or fails, report deletion,
\* company creation, user creation) results in an audit entry recording the
\* actor and the action.
C17_EveryChangeAudited ==
    /\ \A id \in ReportIds :
          handler[id] \in {"triggered", "trigger_failed"} =>
              Entry(actor[id], "generate_report", id)
    /\ \A id \in 1..(next_id - 1) :
          id \notin DOMAIN reports =>
              \E u \in DOMAIN users : Entry(u, "delete_report", id)
    /\ \A i \in DOMAIN company_rows :
          i > Len(ExampleCompanies) =>
              \E u \in DOMAIN users : Entry(u, "add_company", i)
    /\ \A n \in DOMAIN users :
          n > 1 => \E u \in DOMAIN users : Entry(u, "add_user", n)

\* C18: the audit log is append-only: every entry that was ever written is
\* still present with unchanged fields after every operation of the
\* dashboard; no operation updates or deletes an entry.
C18_AppendOnly ==
    [][\A r \in BagToSet(audit_logs) :
          CopiesIn(r, audit_logs') >= CopiesIn(r, audit_logs)]_vars

C18_Witness ==
    /\ BagCardinality(audit_logs) >= MaxAuditRows
    /\ 1 \notin DOMAIN reports
    /\ Entry(1, "generate_report", 1)
    /\ Entry(1, "delete_report", 1)
    /\ \E u \in DOMAIN users : u # 1 /\ Entry(u, "login", NULL)

DeleteEntries ==
    {r \in BagToSet(audit_logs) : r.action = "delete_report"}

\* C19: a Job Record is removed only by the delete action of a user whose
\* role is admin; a delete attempt by a user who is no admin leaves the
\* reports table as it was and writes no delete_report entry; no other
\* operation (poller, generation, download) removes a record.
C19_AdminDeleteOnly ==
    [][/\ \A id \in DOMAIN reports \ DOMAIN reports' :
             /\ DOMAIN reports' = DOMAIN reports \ {id}
             /\ \E r \in BagToSet(audit_logs') :
                   /\ Added(r)
                   /\ r.action = "delete_report"
                   /\ r.target_id = id
                   /\ users[r.user_id].role = "admin"
       /\ denied' # denied =>
             /\ users[denied'[1]].role # "admin"
             /\ reports' = reports
             /\ DeleteEntries' = DeleteEntries
             /\ \A r \in DeleteEntries :
                   CopiesIn(r, audit_logs') = CopiesIn(r, audit_logs)]_vars

C19_Witness ==
    /\ denied = <<2, 1>>
    /\ next_id > 1
    /\ 1 \notin DOMAIN reports
    /\ poller[1].pc = "done"
    /\ Entry(1, "delete_report", 1)
    /\ Entry(2, "download_report", 1)

\* ------------------------------------------------------ claims C21 to C30
\* the calls of ScreenshotChart.run that ended, returning or raising
Shots == SelectSeq(stage_log, LAMBDA e : e.stage = "ScreenshotChart")

\* C21: the screenshot stage triggers the caching of a chart's screenshot,
\* polls until an image URL is returned, and only then downloads the image:
\* a call starts with the caching request, requests the image only after it,
\* and does not end before an image URL was returned.
C21_PollThenDownload ==
    \A i \in DOMAIN Shots :
        LET e == Shots[i] IN
        /\ e.reads # <<>>
        /\ e.reads[1] = CacheScreenshotUrl(e.item)
        /\ \A j \in DOMAIN e.reads : e.reads[j] = ImageUrl(e.item) => j > 1
        /\ \E j \in DOMAIN e.reads : e.reads[j] = ImageUrl(e.item)

\* C22: two requests for the same company are both accepted: each has its
\* own row and its own flow run, and the two rows name two distinct output
\* files.
C22_DistinctArtifacts ==
    \A i, j \in DOMAIN reports :
        (i # j /\ reports[i].company = reports[j].company) =>
            /\ reports[i].file_path # reports[j].file_path
            /\ (reports[i].flow_run_id # NULL /\ reports[j].flow_run_id # NULL)
                   => reports[i].flow_run_id # reports[j].flow_run_id

\* C23: no row ever has more than one poller thread started for it, and a
\* thread is started only by the handler of the request that inserted the
\* row.
C23_OnePollerPerRecord ==
    /\ [](\A id \in ReportIds : poller[id].threads <= 1)
    /\ [][\A id \in ReportIds :
            poller'[id].threads > poller[id].threads =>
                /\ handler[id] = "start_polling_thread"
                /\ handler'[id] = "triggered"
                /\ id < next_id]_vars

C23_Witness ==
    \E i, j \in ReportIds :
        /\ i # j
        /\ poller[i].threads = 1 /\ poller[i].checks > 0
        /\ poller[j].threads = 1 /\ poller[j].checks > 0

\* C24: a poller is started for a row only after flow_run_id and status
\* 'scheduled' were committed to it; the handler's scheduled write happens
\* while the row has no poller; and a row with a poller carries the flow run
\* id its poller asks about.
C24_StartAfterCommit ==
    /\ [][\A id \in ReportIds :
            /\ (poller'[id].threads > poller[id].threads
                    /\ id \in DOMAIN reports) =>
                   /\ reports[id].status = "scheduled"
                   /\ reports[id].flow_run_id = poller'[id].flow_run_id
            /\ (handler[id] = "update" /\ handler'[id] # "update") =>
                   poller[id] = NoPoller]_vars
    /\ [](\A id \in DOMAIN reports :
            poller[id].threads > 0 =>
                reports[id].flow_run_id = poller[id].flow_run_id)

C24_Witness ==
    \E id \in DOMAIN reports :
        /\ poller[id].threads = 1
        /\ poller[id].checks > 0
        /\ reports[id].status \notin {"pending", "scheduled"}
        /\ reports[id].flow_run_id = poller[id].flow_run_id

\* C25: a step of the poller of a row changes nothing of the reports table
\* but that row's status: file_path, flow_run_id, company and every other
\* row stay as they were, and no row is created (a deleted row stays
\* absent).
C25_PollerFrame ==
    [][\A id \in ReportIds :
          (poller[id].threads > 0 /\ poller'[id] # poller[id]) =>
              /\ DOMAIN reports' = DOMAIN reports
              /\ \A i \in DOMAIN reports :
                     IF i = id
                         THEN reports'[i] =
                                 [reports[i] EXCEPT
                                     !.status = reports'[i].status]
                         ELSE reports'[i] = reports[i]]_vars

C25_Witness ==
    /\ 1 \notin DOMAIN reports
    /\ 2 \in DOMAIN reports
    /\ poller[1].checks > 1
    /\ poller[1].pc = "done"
    /\ poller[2].pc = "done"
    /\ reports[2].status = "completed"

\* the entry of an identifier in the login-attempt table of a session
Absent == [count |-> 0, timestamp |-> 0]
AttemptEntry(s, e) ==
    IF e \in DOMAIN LOGIN_ATTEMPTS[s] THEN LOGIN_ATTEMPTS[s][e] ELSE Absent

CountsInRange ==
    \A s \in Sessions : \A e \in DOMAIN LOGIN_ATTEMPTS[s] :
        /\ LOGIN_ATTEMPTS[s][e].count >= 1
        /\ LOGIN_ATTEMPTS[s][e].count <= MAX_LOGIN_ATTEMPTS

\* C26: every identifier in the login-attempt table has a failure count
\* between 1 and MAX_LOGIN_ATTEMPTS, and a call that is rejected by the rate
\* limit, has a malformed email or fails with a store error leaves the table
\* unchanged.
C26_BlockedCallsLeaveTable ==
    /\ []CountsInRange
    /\ [][LOGIN_ATTEMPTS' # LOGIN_ATTEMPTS =>
            auth_log'.last.outcome \in {"user", "None"}]_vars

\* the call just made only removed the entry of its identifier, which was
\* older than LOCKOUT_DURATION
PurgedExpired ==
    LET c == auth_log'.last
    IN  /\ c.email \in DOMAIN LOGIN_ATTEMPTS[c.session]
        /\ now - LOGIN_ATTEMPTS[c.session][c.email].timestamp
              > LOCKOUT_DURATION
        /\ LOGIN_ATTEMPTS' =
              [LOGIN_ATTEMPTS EXCEPT ![c.session] =
                  [i \in DOMAIN LOGIN_ATTEMPTS[c.session] \ {c.email} |->
                      LOGIN_ATTEMPTS[c.session][i]]]

\* C26 amended: counts stay between 1 and MAX_LOGIN_ATTEMPTS; a call
\* rejected by the rate limit and a call with a malformed email leave the
\* table unchanged; a call that fails with a store error leaves it
\* unchanged except that the identifier's entry is removed when it is older
\* than LOCKOUT_DURATION.
C26_BlockedCallsOnlyPurge ==
    /\ []CountsInRange
    /\ [][LOGIN_ATTEMPTS' # LOGIN_ATTEMPTS =>
            \/ auth_log'.last.outcome \in {"user", "None"}
            \/ auth_log'.last.outcome = "error" /\ PurgedExpired]_vars

C26_Witness ==
    LET c == auth_log.last
    IN  /\ c.outcome = "error"
        /\ c.before.n > 0
        /\ c.time - c.before.last > LOCKOUT_DURATION
        /\ c.email \notin DOMAIN LOGIN_ATTEMPTS[c.session]
        /\ \E e \in DOMAIN LOGIN_ATTEMPTS[c.session] :
               LOGIN_ATTEMPTS[c.session][e].count = MAX_LOGIN_ATTEMPTS

OthersKept ==
    \A s \in Sessions, e \in AllEmails :
        (s # auth_log'.last.session \/ e # auth_log'.last.email) =>
            AttemptEntry(s, e)' = AttemptEntry(s, e)

FirstAfterSuccess ==
    LET c == auth_log.last
        d == auth_log'.last
    IN  (/\ LOGIN_ATTEMPTS' # LOGIN_ATTEMPTS
         /\ c.outcome = "user"
         /\ d.outcome = "None"
         /\ d.email = c.email
         /\ d.session = c.session) =>
            LOGIN_ATTEMPTS'[c.session][c.email].count = 1

\* C27: after a successful call the identifier has no entry, so its next
\* failure counts as the first; and a call for one identifier leaves the
\* entry of every other identifier, and every other session's table, as it
\* was.
C27_SuccessClearsOwnEntry ==
    /\ [](auth_log.last.outcome = "user" =>
            auth_log.last.email
                \notin DOMAIN LOGIN_ATTEMPTS[auth_log.last.session])
    /\ [][OthersKept /\ FirstAfterSuccess]_vars

C27_Witness ==
    LET c == auth_log.last
    IN  /\ c.outcome = "user"
        /\ c.before.n > 1
        /\ c.email \notin DOMAIN LOGIN_ATTEMPTS[c.session]
        /\ \E e \in DOMAIN LOGIN_ATTEMPTS[c.session] :
               LOGIN_ATTEMPTS[c.session][e].count > 1

\* the companies the unidade filters of chart c select
Unidade(c) ==
    {charts[c][i].comparator :
        i \in {j \in DOMAIN charts[c] : charts[c][j].subject = "unidade"}}

\* a screenshot of chart flow.k is captured by the run in this step
Captures ==
    /\ flow.pc = "ScreenshotChart"
    /\ Len(stage_log') = Len(stage_log) + 1
    /\ stage_log'[Len(stage_log')].stage = "ScreenshotChart"
    /\ stage_log'[Len(stage_log')].ok

\* C28: whenever a run for company C captures the screenshot of a chart,
\* the chart's unidade filter selects C (and nothing else), whatever other
\* runs do in between.
C28_ScreenshotUnderOwnFilter ==
    [][Captures => Unidade(flow.k) = {<<flow.company>>}]_vars

\* the calls of the latest row action: the action itself, then what it
\* called
Action == stage_log[1]
StoreCalls == SubSeq(stage_log, 2, Len(stage_log))
DownloadRows ==
    {r \in BagToSet(audit_logs) : r.action = "download_report"}

DownloadCount ==
    LET Sum[S \in SUBSET DownloadRows] ==
            IF S = {} THEN 0
            ELSE LET r == CHOOSE x \in S : TRUE
                 IN  CopiesIn(r, audit_logs) + Sum[S \ {r}]
    IN  Sum[DownloadRows]

\* C29: Preview and Baixar send requests to the object store only for a row
\* that is completed and has a file_path; for any other row they send none;
\* and a download_report entry is written only by a Baixar that fetched
\* the content.
C29_FetchOnlyCompleted ==
    [][/\ (stage_log' # stage_log /\ StoreCalls' # <<>>) =>
            /\ Action'.run \in DOMAIN reports
            /\ reports[Action'.run].status = "completed"
            /\ reports[Action'.run].file_path # <<>>
       /\ DownloadCount' # DownloadCount =>
            /\ DownloadCount' = DownloadCount + 1
            /\ Action'.stage = "Baixar"
            /\ Action'.ok
            /\ Len(StoreCalls') = 2
            /\ StoreCalls'[2].reads[1].op = "get_object"
            /\ StoreCalls'[2].reads[1].answer = "body"]_vars

C29_Witness ==
    /\ stage_log # <<>>
    /\ Action.stage = "Baixar"
    /\ Action.ok
    /\ DownloadCount > 0
    /\ \E id \in DOMAIN reports : reports[id].status # "completed"

\* C30: check_file_exists_in_s3 returns True exactly when the object is in
\* the store, and False when it is missing or when the check fails with any
\* error.
C30_ExistsIffPresent ==
    \A i \in DOMAIN stage_log :
        stage_log[i].stage = "check_file_exists_in_s3" =>
            LET q == stage_log[i].reads[1]
            IN  stage_log[i].ok = (q.answer = "200" /\ q.loc \in DOMAIN s3)

====
